---- MODULE Spec2Model ----
(***************************************************************************)
(* Timeline engine of the clinical-trial supply-chain comparison:          *)
(*   sim/bus.py      MessageBus, TimelineEvent                             *)
(*   sim/systems.py  MockSystems (the capability provider)                 *)
(*   sim/before.py   BeforeSimulation (human regime)                       *)
(*   sim/agents.py   the four agents (agent regime)                        *)
(*   sim/sim.py      Simulation (agent regime script)                      *)
(*                                                                         *)
(* Time is counted in half hours (the finest duration the script uses is   *)
(* system_lookup_delay_hours = 0.5); a datetime is the number of half      *)
(* hours since midnight of day 0, a date is a day number.                  *)
(***************************************************************************)
EXTENDS Integers, Sequences, FiniteSets, TLC

VARIABLES
  clock,        \* the wall clock, what datetime.utcnow() returns
  rng,          \* state of the process-wide generator of module random
  next_id,      \* source of fresh uuid4 values
  b_state,      \* "none" before BeforeSimulation() is constructed, then "ready"
  b_seed,       \* the seed BeforeSimulation() was constructed with
  b_now,        \* BeforeSimulation.now
  b_bus,        \* BeforeSimulation.bus.events
  b_metrics,    \* BeforeSimulation.metrics
  b_batches,    \* BeforeSimulation.systems.batches
  b_cfg,        \* the arguments of the last BeforeSimulation.activate_new_site
  b_calls,      \* number of activate_new_site calls made on the instance
  b_df,         \* the last BeforeSimulation.timeline_df() result
  a_state,      \* "none" before Simulation() is constructed, then "ready"
  a_seed,       \* Simulation.cro_systems_seed
  a_pc,         \* position of Simulation.activate_new_site
  a_bus,        \* Simulation.bus.events
  a_metrics,    \* Simulation.metrics
  a_batches,    \* Simulation.systems.batches
  a_local,      \* locals of activate_new_site: site, event, alloc_req, alloc_resp, ...
  a_clinops,    \* ClinicalOpsAgent.state (pending_orders, active_shipments)
  a_logistics,  \* LogisticsAgent.state.active_shipments
  a_calls,      \* number of operations started on the Simulation
  a_df,         \* the last Simulation.timeline_df() result
  a_ret,        \* what the last direct operation call returned
  exports       \* number of timeline_df() calls made

gvars == <<clock, rng, next_id>>
bvars == <<b_state, b_seed, b_now, b_bus, b_metrics, b_batches, b_cfg, b_calls, b_df>>
avars == <<a_state, a_seed, a_pc, a_bus, a_metrics, a_batches, a_local, a_clinops,
           a_logistics, a_calls, a_df, a_ret>>
vars == <<gvars, bvars, avars, exports>>

(***************************************************************************)
(* Bounds of the model.                                                    *)
(***************************************************************************)
\* size of the state space of the abstract pseudo-random generator
RngMod == 16
\* largest logistics_rounds tried
MaxRounds == 3
\* activate_new_site calls on one BeforeSimulation
MaxBeforeCalls == 2
\* activate_new_site calls on one Simulation
MaxActivations == 2
\* direct calls of agent and provider operations on one Simulation
MaxOpCalls == 3
\* timeline_df() calls
MaxExports == 2
\* days the wall clock may jump so that the earliest batches expire
LongJumpDays == 117

(***************************************************************************)
(* Units and small helpers.                                                *)
(***************************************************************************)
Day == 2 * 24
Hours(h) == 2 * h
DateOf(t) == t \div Day
Min(a, b) == IF a < b THEN a ELSE b
Max(a, b) == IF a > b THEN a ELSE b
None == "None"
Last(s) == s[Len(s)]
IsPrefix(s, t) == Len(s) <= Len(t) /\ SubSeq(t, 1, Len(s)) = s

\* s[lo] + ... + s[hi], by halves
RECURSIVE SumRange(_, _, _)
SumRange(s, lo, hi) ==
  IF lo > hi THEN 0
  ELSE IF lo = hi THEN s[lo]
  ELSE LET mid == (lo + hi) \div 2
       IN SumRange(s, lo, mid) + SumRange(s, mid + 1, hi)

\* sum(s)
SumSeq(s) == SumRange(s, 1, Len(s))

\* "a,b,c": ','.join(xs)
RECURSIVE Join(_)
Join(xs) ==
  IF xs = <<>> THEN ""
  ELSE IF Len(xs) = 1 THEN xs[1]
  ELSE xs[1] \o "," \o Join(Tail(xs))

(***************************************************************************)
(* sim/models.py                                                           *)
(***************************************************************************)
PROTOCOL_MCP == "MCP"
PROTOCOL_A2A == "A2A"
CHANNEL_MCP == "mcp"
CHANNEL_A2A == "a2a"
CHANNEL_EMAIL == "email"
CHANNEL_MANUAL == "manual"
CHANNEL_TICKET == "ticket"
CHANNEL_SYSTEM == "system"
US_SITES == <<"US-001", "US-002", "US-003", "US-004", "US-005">>

(***************************************************************************)
(* sim/bus.py                                                              *)
(***************************************************************************)
\* TimelineEvent(t=..., protocol=None, channel=..., actor=..., target=None, ...)
TimelineEvent(t, protocol, channel, actor, target, action, details) ==
  [t |-> t, protocol |-> protocol, channel |-> channel, actor |-> actor,
   target |-> target, action |-> action, details |-> details]

\* log putting the event in front
BusLog_Prepend(events, event) == <<event>> \o events

\* MessageBus.log: self.events.append(event)
BusLog(events, event) == Append(events, event)

Columns == <<"t", "protocol", "channel", "actor", "target", "action", "details">>

\* e.model_dump(): the dict of the seven fields of the event
ModelDump(e) ==
  [t |-> e.t, protocol |-> e.protocol, channel |-> e.channel, actor |-> e.actor,
   target |-> e.target, action |-> e.action, details |-> e.details]

\* the frame with the newest event first
ToDataFrame_Reversed(events) ==
  [columns |-> Columns,
   rows |-> [i \in 1..Len(events) |-> ModelDump(events[Len(events) + 1 - i])]]

\* MessageBus.to_dataframe: a frame is its column names and its rows
ToDataFrame(events) ==
  IF events = <<>> THEN [columns |-> Columns, rows |-> <<>>]
  ELSE [columns |-> Columns, rows |-> [i \in 1..Len(events) |-> ModelDump(events[i])]]

\* no timeline_df() result yet
NoFrame == [columns |-> <<>>, rows |-> <<>>]

(***************************************************************************)
(* The generator of module random, abstracted to a linear congruential     *)
(* generator over RngMod states: a deterministic function of the seed and  *)
(* of the number of draws since seeding, shared by the whole process.      *)
(***************************************************************************)
\* random.seed(seed)
RngSeed(seed) == seed % RngMod
\* the state after one more draw
RngStep(s) == (5 * s + 3) % RngMod
\* random.randint(lo, hi) read off the state reached by the draw
RandInt(s, lo, hi) == lo + (s * (hi - lo + 1)) \div RngMod
\* k draws in a row as a map of states, by repeated squaring
RECURSIVE RngPower(_)
RngPower(k) ==
  IF k = 0 THEN [x \in 0..(RngMod - 1) |-> x]
  ELSE LET h == RngPower(k \div 2)
           hh == [x \in 0..(RngMod - 1) |-> h[h[x]]]
       IN IF k % 2 = 1 THEN [x \in 0..(RngMod - 1) |-> RngStep(hh[x])] ELSE hh
\* the longest run of draws one call makes: the 90-day forecast
MaxDraws == 90
RngTable == [k \in 0..MaxDraws |-> RngPower(k)]
\* the state k draws after state s
RngAfter(s, k) == IF k <= MaxDraws THEN RngTable[k][s] ELSE RngPower(k)[s]

(***************************************************************************)
(* sim/systems.py: MockSystems.  Every query takes the bus it logs to and  *)
(* returns the bus after the call together with the value returned.        *)
(***************************************************************************)
\* f"{n:03d}"
Pad3(n) ==
  IF n < 10 THEN "00" \o ToString(n)
  ELSE IF n < 100 THEN "0" \o ToString(n)
  ELSE ToString(n)

BatchInfo(batch_id, manufacture_date, expiry_date, available_units) ==
  [batch_id |-> batch_id, manufacture_date |-> manufacture_date,
   expiry_date |-> expiry_date, available_units |-> available_units]

\* batches of 8 to 20 units, fewer than one request asks for
NewBatch_SmallLots(i, s0, today) ==
  LET mfg == (today - (60 + i * 7)) * Day
      expiry == mfg + (180 + i * 10) * Day
      units == RandInt(RngAfter(s0, i + 1), 8, 20)
  IN BatchInfo("BATCH-" \o Pad3(i + 1), mfg, expiry, units)

\* the batch the i-th pass (i = 0..9) of the loop of __init__ appends; s0 is
\* the generator right after random.seed(seed), today the date of construction
NewBatch(i, s0, today) ==
  LET mfg == (today - (60 + i * 7)) * Day
      expiry == mfg + (180 + i * 10) * Day
      units == RandInt(RngAfter(s0, i + 1), 80, 200)
  IN BatchInfo("BATCH-" \o Pad3(i + 1), mfg, expiry, units)

\* construction that draws from the generator as it finds it, without seeding it
MockSystems_Unseeded(seed, now) ==
  LET s0 == rng
      today == DateOf(now)
  IN [batches |-> [k \in 1..10 |-> NewBatch(k - 1, s0, today)],
      rng |-> RngAfter(s0, 10)]

\* MockSystems.__init__(study_id, seed): the batches, and the generator it leaves
MockSystems(seed, now) ==
  LET s0 == RngSeed(seed)
      today == DateOf(now)
  IN [batches |-> [k \in 1..10 |-> NewBatch(k - 1, s0, today)],
      rng |-> RngAfter(s0, 10)]

\* a query logged as a dashboard lookup, without protocol tag
McpEvent_AsLookup(now, actor, target, action, details) ==
  TimelineEvent(now, None, CHANNEL_SYSTEM, actor, target, action, details)

\* TimelineEvent(t=datetime.utcnow(), protocol=PROTOCOL_MCP, channel="mcp", ...)
McpEvent(now, actor, target, action, details) ==
  TimelineEvent(now, PROTOCOL_MCP, CHANNEL_MCP, actor, target, action, details)

get_trial_sites(bus, now) ==
  [bus |-> BusLog(bus, McpEvent(now, "CRO Interface Agent", "CTMS", "get_trial_sites",
                                "Returned " \o ToString(Len(US_SITES)) \o " US sites")),
   ret |-> US_SITES]

\* max(0, int(1 + i / 10 + random.random() * 1.5)), random.random() = s / RngMod
ForecastDay(i, s) == Max(0, (20 * RngMod + 2 * RngMod * i + 30 * s) \div (20 * RngMod))

\* total += b; cumulative.append(total), for base[lo..hi]: the totals of the two halves,
\* those of the second half raised by the last total of the first
RECURSIVE RunningTotals(_, _, _)
RunningTotals(base, lo, hi) ==
  IF lo = hi THEN <<base[lo]>>
  ELSE CHOOSE totals \in
         {left \o [k \in 1..Len(right) |-> left[Len(left)] + right[k]] :
            left \in {RunningTotals(base, lo, (lo + hi) \div 2)},
            right \in {RunningTotals(base, (lo + hi) \div 2 + 1, hi)}} :
         TRUE

\* the daily values handed back in place of their running totals
Cumulative_Daily(base) == base

\* the running totals of base
Cumulative(base) == IF base = <<>> THEN <<>> ELSE RunningTotals(base, 1, Len(base))

\* EnrollmentData(study_id=..., site_id=..., forecast_daily=..., cumulative=...)
EnrollmentData(study_id, site_id, forecast_daily, cumulative) ==
  [study_id |-> study_id, site_id |-> site_id,
   forecast_daily |-> forecast_daily, cumulative |-> cumulative]

get_enrollment_data(bus, now, g, study_id, site_id, days) ==
  LET n == Max(0, days)
  IN CHOOSE result \in
       {[bus |-> BusLog(bus, McpEvent(now, "CRO Interface Agent", "CTMS", "get_enrollment_data",
                                      site_id \o " " \o ToString(days)
                                        \o "-day forecast generated")),
         rng |-> RngAfter(g, n),
         ret |-> EnrollmentData(study_id, site_id, base, Cumulative(base))] :
          base \in {[k \in 1..n |-> ForecastDay(k - 1, RngAfter(g, k))]}} :
       TRUE

get_batch_stability(bus, now, batches) ==
  [bus |-> BusLog(bus, McpEvent(now, "MES Agent", "LIMS", "get_batch_stability",
                                "Fetched " \o ToString(Len(batches)) \o " batches")),
   ret |-> batches]

BoolStr(b) == IF b THEN "True" ELSE "False"

\* a batch that expires on on_date itself counted as still valid
ExpiryValid_NotStrict(batches, batch_id, on_date) ==
  \E k \in 1..Len(batches) :
     /\ batches[k].batch_id = batch_id
     /\ \A j \in 1..(k - 1) : batches[j].batch_id # batch_id
     /\ batches[k].expiry_date >= on_date

\* bool(batch and batch.expiry_date > on_date), batch the first one with that id
ExpiryValid(batches, batch_id, on_date) ==
  \E k \in 1..Len(batches) :
     /\ batches[k].batch_id = batch_id
     /\ \A j \in 1..(k - 1) : batches[j].batch_id # batch_id
     /\ batches[k].expiry_date > on_date

\* the expiry check logged only when the batch is still valid
check_batch_expiry_SilentOnExpired(bus, now, batches, batch_id, on_date) ==
  LET valid == ExpiryValid(batches, batch_id, on_date)
  IN [bus |-> IF ~valid THEN bus
              ELSE BusLog(bus, McpEvent(now, "MES Agent", "LIMS", "check_batch_expiry",
                                        batch_id \o " valid_on " \o ToString(DateOf(on_date))
                                          \o " -> " \o BoolStr(valid))),
      ret |-> valid]

check_batch_expiry(bus, now, batches, batch_id, on_date) ==
  LET valid == ExpiryValid(batches, batch_id, on_date)
  IN [bus |-> BusLog(bus, McpEvent(now, "MES Agent", "LIMS", "check_batch_expiry",
                                   batch_id \o " valid_on " \o ToString(DateOf(on_date))
                                     \o " -> " \o BoolStr(valid))),
      ret |-> valid]

get_depot_inventory(bus, now, batches) ==
  [bus |-> BusLog(bus, McpEvent(now, "Logistics Agent", "WMS", "get_depot_inventory",
                                "Depot US-DEPOT-1 with " \o ToString(Len(batches)) \o " batches")),
   ret |-> [depot_id |-> "US-DEPOT-1", country |-> "United States", batches |-> batches]]

check_compliance_rules(bus, now, site_id) ==
  [bus |-> BusLog(bus, McpEvent(now, "Logistics Agent", "Compliance", "check_compliance_rules",
                                "Checked rules for " \o site_id)),
   ret |-> [temperature |-> "2-8C", serialization |-> "DSCSA", country |-> "US"]]

\* sum(b.available_units for b in batches)
TotalUnits(batches) == SumSeq([k \in 1..Len(batches) |-> batches[k].available_units])

\* the total counting only the batches not yet expired
get_erp_inventory_Unexpired(bus, now, batches) ==
  LET total_units == SumSeq([k \in 1..Len(batches) |->
                               IF batches[k].expiry_date > now
                               THEN batches[k].available_units ELSE 0])
  IN [bus |-> BusLog(bus, McpEvent(now, "Clinical Ops Agent", "ERP", "get_erp_inventory",
                                   "Total units available: " \o ToString(total_units))),
      ret |-> [total_units |-> total_units, batch_count |-> Len(batches)]]

get_erp_inventory(bus, now, batches) ==
  LET total_units == TotalUnits(batches)
  IN [bus |-> BusLog(bus, McpEvent(now, "Clinical Ops Agent", "ERP", "get_erp_inventory",
                                   "Total units available: " \o ToString(total_units))),
      ret |-> [total_units |-> total_units, batch_count |-> Len(batches)]]

(***************************************************************************)
(* sim/before.py: BeforeSimulation.  The script threads self through its   *)
(* statements: self.now, self.bus.events and self.metrics["latency_hours"] *)
(* (in half hours).                                                        *)
(***************************************************************************)
\* a float metric as the fraction num / den
Rat(num, den) == [num |-> num, den |-> den]
RatEq(x, y) == x.num * y.den = y.num * x.den

\* self.metrics of __init__
BeforeMetrics0 ==
  [order_to_delivery_days |-> Rat(0, 1), shipment_cost |-> 0, compliance_events |-> 0,
   forecast_accuracy |-> Rat(0, 1), latency_hours |-> Rat(0, 2)]

\* _advance forgetting the latency metric
Advance_NoLatency(self, hours) ==
  [self EXCEPT !.now = @ + hours]

\* BeforeSimulation._advance(hours)
Advance(self, hours) ==
  [self EXCEPT !.now = @ + hours, !.latency = @ + hours]

\* every event of the script filed as a ticket
BeforeLog_AllTickets(self, channel, actor, target, action, details) ==
  [self EXCEPT !.bus = BusLog(@, TimelineEvent(self.now, None, CHANNEL_TICKET, actor, target,
                                               action, details))]

\* self.bus.log(TimelineEvent(t=self.now, channel=..., ...)): no protocol given
BeforeLog(self, channel, actor, target, action, details) ==
  [self EXCEPT !.bus = BusLog(@, TimelineEvent(self.now, None, channel, actor, target,
                                               action, details))]

\* the per-team delay taken also when the shared delay is given
QueueDelay_PerTeam(ticket_queue_delay_hours, per_team) == per_team

\* ticket_queue_delay_hours if ticket_queue_delay_hours is not None else per_team;
\* the optional argument is <<>> for None and <<v>> for a value
QueueDelay(ticket_queue_delay_hours, per_team) ==
  IF ticket_queue_delay_hours # <<>> THEN ticket_queue_delay_hours[1] ELSE per_team

\* the detour logging the request only
Clarification_NoReply(self, cfg) ==
  Advance(BeforeLog(self, CHANNEL_EMAIL, "Clinical Ops (Human)", "Logistics/TMS (Human)",
                    "Email sent: Clarification on ticket",
                    "Clarifying cold-chain requirements"),
          cfg.email_delay_hours)

\* the detour logging both emails without letting time pass between them
Clarification_NoWait(self, cfg) ==
  LET e1 == BeforeLog(self, CHANNEL_EMAIL, "Clinical Ops (Human)", "Logistics/TMS (Human)",
                      "Email sent: Clarification on ticket",
                      "Clarifying cold-chain requirements")
  IN BeforeLog(e1, CHANNEL_EMAIL, "Logistics/TMS (Human)", "Clinical Ops (Human)",
               "Email reply: Clarification received", "Confirmed handling instructions")

\* the clarification detour at the end of a pass of the negotiation loop
Clarification(self, cfg) ==
  LET e1 == BeforeLog(self, CHANNEL_EMAIL, "Clinical Ops (Human)", "Logistics/TMS (Human)",
                      "Email sent: Clarification on ticket",
                      "Clarifying cold-chain requirements")
      e2 == Advance(e1, cfg.email_delay_hours)
  IN BeforeLog(e2, CHANNEL_EMAIL, "Logistics/TMS (Human)", "Clinical Ops (Human)",
               "Email reply: Clarification received", "Confirmed handling instructions")

\* the loop that never notes the detour as done and takes it in every pass
RECURSIVE NegotiationRounds_DetourEveryRound(_, _, _, _)
NegotiationRounds_DetourEveryRound(self, i, optional_email_done, cfg) ==
  IF i >= cfg.logistics_rounds THEN self
  ELSE
    LET r1 == BeforeLog(self, CHANNEL_TICKET, "Clinical Ops (Human)", "Logistics/TMS (Human)",
                        IF i = 0 THEN "Ticket opened: Urgent shipment request"
                                 ELSE "Ticket update: Follow-up / confirmation",
                        "Negotiation round " \o ToString(i + 1))
        r2 == Advance(r1, cfg.logistics_roundtrip_hours)
        r3 == BeforeLog(r2, CHANNEL_TICKET, "Logistics/TMS (Human)", "Clinical Ops (Human)",
                        "Ticket update: Quote / ETA",
                        "Proposed plan after " \o ToString(i + 1) \o " round(s)")
        r4 == IF cfg.email_delay_hours > 0 THEN Clarification(r3, cfg) ELSE r3
    IN NegotiationRounds_DetourEveryRound(r4, i + 1, FALSE, cfg)

\* for i in range(logistics_rounds): ..., from pass i on
RECURSIVE NegotiationRounds(_, _, _, _)
NegotiationRounds(self, i, optional_email_done, cfg) ==
  IF i >= cfg.logistics_rounds THEN self
  ELSE
    LET r1 == BeforeLog(self, CHANNEL_TICKET, "Clinical Ops (Human)", "Logistics/TMS (Human)",
                        IF i = 0 THEN "Ticket opened: Urgent shipment request"
                                 ELSE "Ticket update: Follow-up / confirmation",
                        "Negotiation round " \o ToString(i + 1))
        r2 == Advance(r1, cfg.logistics_roundtrip_hours)
        r3 == BeforeLog(r2, CHANNEL_TICKET, "Logistics/TMS (Human)", "Clinical Ops (Human)",
                        "Ticket update: Quote / ETA",
                        "Proposed plan after " \o ToString(i + 1) \o " round(s)")
        detour == ~optional_email_done /\ cfg.email_delay_hours > 0
        r4 == IF detour THEN Clarification(r3, cfg) ELSE r3
    IN NegotiationRounds(r4, i + 1, optional_email_done \/ detour, cfg)

\* the eight events before the negotiation loop
BeforeOpening(self, batches, site_id, cfg) ==
  LET s1 == BeforeLog(self, CHANNEL_EMAIL, "CRO (Human)", "Clinical Ops (Human)",
                      "Email sent: Weekly enrollment report",
                      "Excel attachment for " \o site_id)
      s2 == Advance(s1, cfg.cro_review_delay_hours)
      s3 == BeforeLog(s2, CHANNEL_MANUAL, "Clinical Ops (Human)", "Clinical Ops (Human)",
                      "Report reviewed: Enrollment report", "Potential supply risk flagged")
      s4 == BeforeLog(s3, CHANNEL_TICKET, "Clinical Ops (Human)", "Depot/WMS (Human)",
                      "Ticket opened: Inventory check request",
                      "Initial stocking for site " \o site_id \o " (Clinical Supply queue)")
      s5 == Advance(s4, QueueDelay(cfg.ticket_queue_delay_hours, cfg.wms_email_delay_hours))
      s6 == BeforeLog(s5, CHANNEL_SYSTEM, "Depot/WMS (Human)", "Depot/WMS (Human)",
                      "System lookup: ERP/WMS inventory", "Checked depot inventory dashboard")
      s7 == Advance(s6, cfg.system_lookup_delay_hours)
      s8 == BeforeLog(s7, CHANNEL_TICKET, "Depot/WMS (Human)", "Clinical Ops (Human)",
                      "Ticket update: Inventory status",
                      "Total units at depot: " \o ToString(TotalUnits(batches)))
      s9 == BeforeLog(s8, CHANNEL_TICKET, "Clinical Ops (Human)", "MES/QA (Human)",
                      "Ticket opened: Release/expiry inquiry",
                      "Which lots are releasable in next 3 days?")
      s10 == Advance(s9, QueueDelay(cfg.ticket_queue_delay_hours, cfg.mesqa_email_delay_hours))
      s11 == BeforeLog(s10, CHANNEL_SYSTEM, "MES/QA (Human)", "MES/QA (Human)",
                       "System lookup: LIMS/QMS release status",
                       "Checked batch release/expiry in LIMS/QMS")
      s12 == Advance(s11, cfg.system_lookup_delay_hours)
  IN BeforeLog(s12, CHANNEL_TICKET, "MES/QA (Human)", "Clinical Ops (Human)",
               "Ticket update: Release/expiry list", "Provided list of non-expired lots")

\* the metrics assigned after the loop; latency in half hours
\* the metrics with the surcharge charged from two rounds on
BeforeFinalMetrics_FromTwoRounds(latency, cfg) ==
  [order_to_delivery_days |-> Rat(latency + Day, Day),
   shipment_cost |-> 500 + 120 * 2 + (IF cfg.logistics_rounds >= 2 THEN 200 ELSE 0),
   compliance_events |-> 0,
   forecast_accuracy |-> Rat(8, 10),
   latency_hours |-> Rat(latency, 2)]

\* the metrics activate_new_site sets after the script; latency is in half hours
BeforeFinalMetrics(latency, cfg) ==
  [order_to_delivery_days |-> Rat(latency + Day, Day),
   shipment_cost |-> 500 + 120 * 2 + (IF cfg.logistics_rounds > 2 THEN 200 ELSE 0),
   compliance_events |-> 0,
   forecast_accuracy |-> Rat(8, 10),
   latency_hours |-> Rat(latency, 2)]

\* BeforeSimulation.activate_new_site(site, ...): self after the call
BeforeScript(self, batches, site_id, cfg) ==
  NegotiationRounds(BeforeOpening(self, batches, site_id, cfg), 0, FALSE, cfg)

\* the defaults of the signature of activate_new_site
DefaultCfg ==
  [cro_review_delay_hours |-> Hours(24 * 7), wms_email_delay_hours |-> Hours(18),
   mesqa_email_delay_hours |-> Hours(24), logistics_roundtrip_hours |-> Hours(8),
   logistics_rounds |-> 2, email_delay_hours |-> Hours(8),
   ticket_queue_delay_hours |-> <<>>, system_lookup_delay_hours |-> 1]

\* the configurations tried: the defaults, varied in the round count (also zero
\* and negative), the
\* shared queue delay, the clarification delay and the roundtrip (also negative)
BeforeConfigs ==
  { [DefaultCfg EXCEPT !.logistics_rounds = r, !.email_delay_hours = e,
                       !.ticket_queue_delay_hours = q, !.logistics_roundtrip_hours = t] :
      r \in (0 - 1)..MaxRounds, e \in {Hours(8), 0}, q \in {<<>>, <<Hours(10)>>},
      t \in {Hours(8), 0 - Hours(2)} }

Sites == {"US-BOS-001"}
Seeds == {42, 7}

\* BeforeSimulation(seed)
NewBefore(seed) ==
  /\ b_state = "none"
  /\ LET systems == MockSystems(seed, clock)
     IN /\ rng' = systems.rng
        /\ b_batches' = systems.batches
  /\ b_state' = "ready"
  /\ b_seed' = seed
  /\ b_bus' = <<>>
  /\ b_metrics' = BeforeMetrics0
  /\ b_now' = clock
  /\ UNCHANGED <<clock, next_id, b_cfg, b_calls, b_df, avars, exports>>

\* sim.activate_new_site(site, **cfg)
BeforeActivate(site_id, cfg) ==
  /\ b_state = "ready"
  /\ b_calls < MaxBeforeCalls
  /\ LET self == [now |-> b_now, bus |-> b_bus, latency |-> b_metrics.latency_hours.num]
         done == BeforeScript(self, b_batches, site_id, cfg)
     IN /\ b_now' = done.now
        /\ b_bus' = done.bus
        /\ b_metrics' = BeforeFinalMetrics(done.latency, cfg)
  /\ b_cfg' = cfg
  /\ b_calls' = b_calls + 1
  /\ UNCHANGED <<gvars, b_state, b_seed, b_batches, b_df, avars, exports>>

\* sim.timeline_df()
BeforeExport ==
  /\ b_state = "ready"
  /\ exports < MaxExports
  /\ b_df' = ToDataFrame(b_bus)
  /\ exports' = exports + 1
  /\ UNCHANGED <<gvars, b_state, b_seed, b_now, b_bus, b_metrics, b_batches, b_cfg, b_calls, avars>>

(***************************************************************************)
(* sim/models.py: the agent-to-agent messages.  uuid4 values are drawn     *)
(* from next_id.                                                           *)
(***************************************************************************)
SiteActivatedEvent(id, now, study_id, site_id, activation_date) ==
  [protocol |-> PROTOCOL_A2A, event_id |-> id, timestamp |-> now, study_id |-> study_id,
   site_id |-> site_id, activation_date |-> activation_date]

AllocateLotRequest(id, now, study_id, site_id, quantity) ==
  [protocol |-> PROTOCOL_A2A, message_id |-> id, timestamp |-> now, study_id |-> study_id,
   site_id |-> site_id, quantity |-> quantity]

\* a response that repeats its own message_id as request_id
AllocateLotResponse_OwnId(id, now, request_id, batch_ids, release_date, constraints) ==
  [protocol |-> PROTOCOL_A2A, message_id |-> id, timestamp |-> now,
   request_id |-> id, batch_ids |-> batch_ids, release_date |-> release_date,
   constraints |-> constraints]

AllocateLotResponse(id, now, request_id, batch_ids, release_date, constraints) ==
  [protocol |-> PROTOCOL_A2A, message_id |-> id, timestamp |-> now,
   request_id |-> request_id, batch_ids |-> batch_ids, release_date |-> release_date,
   constraints |-> constraints]

CreateShipmentRequest(id, now, site_id, batch_ids, target_delivery_date) ==
  [protocol |-> PROTOCOL_A2A, message_id |-> id, timestamp |-> now, site_id |-> site_id,
   batch_ids |-> batch_ids, target_delivery_date |-> target_delivery_date]

ShipmentPlan(id, now, request_id, shipment_id, departure_date, eta, cost) ==
  [protocol |-> PROTOCOL_A2A, message_id |-> id, timestamp |-> now,
   request_id |-> request_id, shipment_id |-> shipment_id,
   departure_date |-> departure_date, eta |-> eta, cost |-> cost]

(***************************************************************************)
(* sim/agents.py                                                           *)
(***************************************************************************)
\* a message between agents tagged A2A but filed on the system channel
A2aEvent_OnMcpChannel(now, actor, target, action, details) ==
  TimelineEvent(now, PROTOCOL_A2A, CHANNEL_MCP, actor, target, action, details)

\* TimelineEvent(t=datetime.utcnow(), protocol=PROTOCOL_A2A, channel="a2a", ...)
A2aEvent(now, actor, target, action, details) ==
  TimelineEvent(now, PROTOCOL_A2A, CHANNEL_A2A, actor, target, action, details)

\* AgentState(name=...): the lists the agents append to
AgentState0 == [pending_orders |-> <<>>, active_shipments |-> <<>>]

\* ClinicalOpsAgent.receive_site_activated(event): the agent state and the bus after it
receive_site_activated(state, bus, now, event) ==
  [state |-> [state EXCEPT !.pending_orders =
                 Append(@, [type |-> "SiteActivated", site_id |-> event.site_id,
                            activation_date |-> event.activation_date])],
   bus |-> BusLog(bus, A2aEvent(now, "CRO Interface Agent", "Clinical Ops Agent",
                                "SiteActivatedEvent",
                                "Site " \o event.site_id \o " activated"))]

\* ClinicalOpsAgent.send_allocate_request(study_id, site_id, quantity)
send_allocate_request(bus, now, id, study_id, site_id, quantity) ==
  [bus |-> BusLog(bus, A2aEvent(now, "Clinical Ops Agent", "MES Agent", "AllocateLotRequest",
                                "site=" \o site_id \o ", qty=" \o ToString(quantity))),
   ret |-> AllocateLotRequest(id, now, study_id, site_id, quantity)]

\* the response stored in pending_orders but never logged to the bus
receive_allocate_response_NoLog(state, bus, now, resp) ==
  [state |-> [state EXCEPT !.pending_orders =
                 Append(@, [type |-> "Allocation", batch_ids |-> resp.batch_ids,
                            release_date |-> resp.release_date,
                            constraints |-> resp.constraints])],
   bus |-> bus]

\* ClinicalOpsAgent.receive_allocate_response(resp)
receive_allocate_response(state, bus, now, resp) ==
  [state |-> [state EXCEPT !.pending_orders =
                 Append(@, [type |-> "Allocation", batch_ids |-> resp.batch_ids,
                            release_date |-> resp.release_date,
                            constraints |-> resp.constraints])],
   bus |-> BusLog(bus, A2aEvent(now, "MES Agent", "Clinical Ops Agent", "AllocateLotResponse",
                                "batches=" \o Join(resp.batch_ids) \o " release="
                                  \o ToString(DateOf(resp.release_date))))]

\* the request that leaves out the last batch id it was given
send_create_shipment_DropLast(bus, now, id, site_id, batch_ids, target_delivery_date) ==
  LET sent == SubSeq(batch_ids, 1, Len(batch_ids) - 1)
  IN [bus |-> BusLog(bus, A2aEvent(now, "Clinical Ops Agent", "Logistics Agent",
                                   "CreateShipmentRequest",
                                   "site=" \o site_id \o ", batches=" \o Join(sent))),
      ret |-> CreateShipmentRequest(id, now, site_id, sent, target_delivery_date)]

\* ClinicalOpsAgent.send_create_shipment(site_id, batch_ids, target_delivery_date)
send_create_shipment(bus, now, id, site_id, batch_ids, target_delivery_date) ==
  [bus |-> BusLog(bus, A2aEvent(now, "Clinical Ops Agent", "Logistics Agent",
                                "CreateShipmentRequest",
                                "site=" \o site_id \o ", batches=" \o Join(batch_ids))),
   ret |-> CreateShipmentRequest(id, now, site_id, batch_ids, target_delivery_date)]

\* f"{cost:,.0f}"
Commas(n) ==
  IF n < 1000 THEN ToString(n) ELSE ToString(n \div 1000) \o "," \o Pad3(n % 1000)

\* ClinicalOpsAgent.receive_shipment_plan(plan)
\* the plan received and only the latest shipment kept
receive_shipment_plan_KeepLatest(state, bus, now, plan) ==
  [state |-> [state EXCEPT !.active_shipments =
                 <<[shipment_id |-> plan.shipment_id, eta |-> plan.eta, cost |-> plan.cost]>>],
   bus |-> BusLog(bus, A2aEvent(now, "Logistics Agent", "Clinical Ops Agent", "ShipmentPlan",
                                "shipment=" \o plan.shipment_id \o " eta="
                                  \o ToString(DateOf(plan.eta)) \o " cost=$"
                                  \o Commas(plan.cost)))]

receive_shipment_plan(state, bus, now, plan) ==
  [state |-> [state EXCEPT !.active_shipments =
                 Append(@, [shipment_id |-> plan.shipment_id, eta |-> plan.eta,
                            cost |-> plan.cost])],
   bus |-> BusLog(bus, A2aEvent(now, "Logistics Agent", "Clinical Ops Agent", "ShipmentPlan",
                                "shipment=" \o plan.shipment_id \o " eta="
                                  \o ToString(DateOf(plan.eta)) \o " cost=$"
                                  \o Commas(plan.cost)))]

\* the checks made and logged, but every batch kept whatever they answer
RECURSIVE ValidBatches_All(_, _, _, _, _, _)
ValidBatches_All(bus, now, batches, k, release_date, kept) ==
  IF k > Len(batches) THEN [bus |-> bus, ret |-> kept]
  ELSE
    LET c == check_batch_expiry(bus, now, batches, batches[k].batch_id, release_date)
    IN ValidBatches_All(c.bus, now, batches, k + 1, release_date, Append(kept, k))

\* [b for b in all_batches if self.systems.check_batch_expiry(self.bus, b.batch_id,
\* release_date)] from batch k on: the bus after the checks and the positions kept
RECURSIVE ValidBatches(_, _, _, _, _, _)
ValidBatches(bus, now, batches, k, release_date, kept) ==
  IF k > Len(batches) THEN [bus |-> bus, ret |-> kept]
  ELSE
    LET c == check_batch_expiry(bus, now, batches, batches[k].batch_id, release_date)
    IN ValidBatches(c.bus, now, batches, k + 1, release_date,
                    IF c.ret THEN Append(kept, k) ELSE kept)

\* the insertion of a descending sort
RECURSIVE InsertByExpiry_Descending(_, _, _)
InsertByExpiry_Descending(sorted, k, batches) ==
  IF sorted = <<>> THEN <<k>>
  ELSE IF batches[k].expiry_date > batches[Head(sorted)].expiry_date
       THEN <<k>> \o sorted
       ELSE <<Head(sorted)>> \o InsertByExpiry_Descending(Tail(sorted), k, batches)

\* list.sort(key=lambda b: b.expiry_date) on positions: stable, ascending
RECURSIVE InsertByExpiry(_, _, _)
InsertByExpiry(sorted, k, batches) ==
  IF sorted = <<>> THEN <<k>>
  ELSE IF batches[k].expiry_date < batches[Head(sorted)].expiry_date
       THEN <<k>> \o sorted
       ELSE <<Head(sorted)>> \o InsertByExpiry(Tail(sorted), k, batches)

RECURSIVE SortByExpiry(_, _)
SortByExpiry(positions, batches) ==
  IF positions = <<>> THEN <<>>
  ELSE CHOOSE result \in
         {InsertByExpiry(sorted, Last(positions), batches) :
            sorted \in {SortByExpiry(SubSeq(positions, 1, Len(positions) - 1), batches)}} :
         TRUE

\* taking the whole remainder from the batch at hand
Take_All(qty_remaining, available_units) == qty_remaining

\* take = min(qty_remaining, b.available_units)
Take(qty_remaining, available_units) == Min(qty_remaining, available_units)

\* the loop left only when exactly nothing remains, taking whatever is not zero
RECURSIVE TakeLoop_StopAtZero(_, _, _, _)
TakeLoop_StopAtZero(todo, batches, qty_remaining, selected) ==
  IF todo = <<>> \/ qty_remaining = 0
  THEN [batches |-> batches, qty_remaining |-> qty_remaining, selected |-> selected]
  ELSE
    LET k == Head(todo)
    IN CHOOSE result \in
         {IF take # 0
          THEN TakeLoop_StopAtZero(Tail(todo),
                                   [batches EXCEPT ![k].available_units = @ - take],
                                   qty_remaining - take, Append(selected, batches[k].batch_id))
          ELSE TakeLoop_StopAtZero(Tail(todo), batches, qty_remaining, selected) :
            take \in {Take(qty_remaining, batches[k].available_units)}} :
         TRUE

\* for b in valid_batches: ..., over the positions still to visit
RECURSIVE TakeLoop(_, _, _, _)
TakeLoop(todo, batches, qty_remaining, selected) ==
  IF todo = <<>> \/ qty_remaining <= 0
  THEN [batches |-> batches, qty_remaining |-> qty_remaining, selected |-> selected]
  ELSE
    LET k == Head(todo)
    IN CHOOSE result \in
         {IF take > 0
          THEN TakeLoop(Tail(todo), [batches EXCEPT ![k].available_units = @ - take],
                        qty_remaining - take, Append(selected, batches[k].batch_id))
          ELSE TakeLoop(Tail(todo), batches, qty_remaining, selected) :
            take \in {Take(qty_remaining, batches[k].available_units)}} :
         TRUE

\* the note written also when nothing is missing
ShortfallNote_Always(qty_remaining) ==
  IF qty_remaining >= 0
  THEN <<"Short " \o ToString(qty_remaining) \o " units; partial allocation">>
  ELSE <<>>

\* if qty_remaining > 0: constraints.append(f"Short {qty_remaining} units; ...")
ShortfallNote(qty_remaining) ==
  IF qty_remaining > 0
  THEN <<"Short " \o ToString(qty_remaining) \o " units; partial allocation">>
  ELSE <<>>

\* the allocation worked out on a copy of the batch list: the provider's
\* batches keep their quantities
allocate_lots_OnCopy(bus, now, batches, id, req) ==
  LET all_batches == get_batch_stability(bus, now, batches)
      release_date == now + 3 * Day
  IN CHOOSE result \in
       {LET taken == TakeLoop(SortByExpiry(valid_batches.ret, batches), batches,
                              req.quantity, <<>>)
            constraints == ShortfallNote(taken.qty_remaining)
        IN [bus |-> valid_batches.bus,
            batches |-> batches,
            ret |-> AllocateLotResponse(id, now, req.message_id, taken.selected,
                                        release_date, constraints)] :
          valid_batches \in
            {ValidBatches(all_batches.bus, now, batches, 1, release_date, <<>>)}} :
       TRUE

\* MESAgent.allocate_lots(req): the bus, the batches and the response after it
allocate_lots(bus, now, batches, id, req) ==
  LET all_batches == get_batch_stability(bus, now, batches)
      release_date == now + 3 * Day
  IN CHOOSE result \in
       {LET taken == TakeLoop(SortByExpiry(valid_batches.ret, batches), batches,
                              req.quantity, <<>>)
            constraints == ShortfallNote(taken.qty_remaining)
        IN [bus |-> valid_batches.bus,
            batches |-> taken.batches,
            ret |-> AllocateLotResponse(id, now, req.message_id, taken.selected,
                                        release_date, constraints)] :
          valid_batches \in
            {ValidBatches(all_batches.bus, now, batches, 1, release_date, <<>>)}} :
       TRUE

\* the surcharge applied only under two days of lead
Expedite_UnderTwoDays(lead_days) == IF lead_days < 2 THEN 400 ELSE 0

\* expedite = 400 if lead_days <= 2 else 0
Expedite(lead_days) == IF lead_days <= 2 THEN 400 ELSE 0

\* the plan made asking for the compliance rules before the depot inventory
plan_shipment_ComplianceFirst(state, bus, now, batches, ids, req) ==
  LET rules == check_compliance_rules(bus, now, req.site_id)
      inv == get_depot_inventory(rules.bus, now, batches)
      today == now
      lead_days == Max(1, DateOf(req.target_delivery_date) - DateOf(today))
      cost == 500 + 120 * Len(req.batch_ids) + Expedite(lead_days)
      departure == today + 1 * Day
      eta == today + (IF Expedite(lead_days) = 0 THEN 2 ELSE 1) * Day
  IN [state |-> [state EXCEPT !.active_shipments =
                    Append(@, [site_id |-> req.site_id, batches |-> req.batch_ids,
                               eta |-> eta, cost |-> cost])],
      bus |-> inv.bus,
      ret |-> ShipmentPlan(ids[2], now, req.message_id, ToString(ids[1]), departure, eta, cost)]

\* LogisticsAgent.plan_shipment(req); ids are the two uuid4 values it draws
plan_shipment(state, bus, now, batches, ids, req) ==
  LET inv == get_depot_inventory(bus, now, batches)
      rules == check_compliance_rules(inv.bus, now, req.site_id)
      today == now
      lead_days == Max(1, DateOf(req.target_delivery_date) - DateOf(today))
      base_cost == 500
      per_batch == 120 * Len(req.batch_ids)
      expedite == Expedite(lead_days)
      cost == base_cost + per_batch + expedite
      departure == today + 1 * Day
      eta == today + (IF expedite = 0 THEN 2 ELSE 1) * Day
  IN [state |-> [state EXCEPT !.active_shipments =
                    Append(@, [site_id |-> req.site_id, batches |-> req.batch_ids,
                               eta |-> eta, cost |-> cost])],
      bus |-> rules.bus,
      ret |-> ShipmentPlan(ids[2], now, req.message_id, ToString(ids[1]), departure, eta, cost)]

(***************************************************************************)
(* sim/sim.py: Simulation.  activate_new_site is a script of agent calls;  *)
(* a_pc is the call it makes next, and each call reads the wall clock once. *)
(***************************************************************************)
STUDY_ID == "STUDY-ALPHA"

\* self.metrics of __init__
SimMetrics0 ==
  [order_to_delivery_days |-> 0, shipment_cost |-> 0, compliance_events |-> 0,
   forecast_accuracy |-> Rat(0, 1)]

\* the locals of activate_new_site before it assigns them
Locals0 ==
  [site_id |-> "",
   enroll90 |-> EnrollmentData(STUDY_ID, "", <<>>, <<>>),
   enroll7 |-> EnrollmentData(STUDY_ID, "", <<>>, <<>>),
   event |-> SiteActivatedEvent(0, 0, STUDY_ID, "", 0),
   alloc_req |-> AllocateLotRequest(0, 0, STUDY_ID, "", 0),
   alloc_resp |-> AllocateLotResponse(0, 0, 0, <<>>, 0, <<>>),
   ship_req |-> CreateShipmentRequest(0, 0, "", <<>>, 0),
   plan |-> ShipmentPlan(0, 0, 0, "", 0, 0, 0)]

\* no direct call has returned yet
NoRet == [op |-> "none", args |-> <<>>, val |-> 0]

\* Simulation(seed)
NewSimulation(seed) ==
  /\ a_state = "none"
  /\ LET systems == MockSystems(seed, clock)
     IN /\ rng' = systems.rng
        /\ a_batches' = systems.batches
  /\ a_state' = "ready"
  /\ a_seed' = seed
  /\ a_bus' = <<>>
  /\ a_metrics' = SimMetrics0
  /\ a_clinops' = AgentState0
  /\ a_logistics' = AgentState0
  /\ UNCHANGED <<clock, next_id, a_pc, a_local, a_calls, a_df, a_ret, bvars, exports>>

\* _sites = self.cro.get_sites()
SimGetSites(site_id) ==
  /\ a_state = "ready" /\ a_pc = "idle"
  /\ a_calls < MaxActivations
  /\ a_bus' = get_trial_sites(a_bus, clock).bus
  /\ a_local' = [a_local EXCEPT !.site_id = site_id]
  /\ a_calls' = a_calls + 1
  /\ a_pc' = "enroll90"
  /\ UNCHANGED <<gvars, a_state, a_seed, a_metrics, a_batches, a_clinops, a_logistics, a_df, a_ret,
                 bvars, exports>>

\* _enroll90 = self.cro.get_site_enrollment(self.study_id, site["site_id"], days=90)
SimEnroll90 ==
  /\ a_pc = "enroll90"
  /\ LET r == get_enrollment_data(a_bus, clock, rng, STUDY_ID, a_local.site_id, 90)
     IN /\ a_bus' = r.bus /\ rng' = r.rng
        /\ a_local' = [a_local EXCEPT !.enroll90 = r.ret]
  /\ a_pc' = "site_activated"
  /\ UNCHANGED <<clock, next_id, a_state, a_seed, a_metrics, a_batches, a_clinops,
                 a_logistics, a_calls, a_df, a_ret, bvars, exports>>

\* event = SiteActivatedEvent(...); self.clinops.receive_site_activated(event)
SimSiteActivated ==
  /\ a_pc = "site_activated"
  /\ LET event == SiteActivatedEvent(next_id, clock, STUDY_ID, a_local.site_id, clock)
         r == receive_site_activated(a_clinops, a_bus, clock, event)
     IN /\ a_local' = [a_local EXCEPT !.event = event]
        /\ a_clinops' = r.state
        /\ a_bus' = r.bus
  /\ next_id' = next_id + 1
  /\ a_pc' = "erp"
  /\ UNCHANGED <<clock, rng, a_state, a_seed, a_metrics, a_batches, a_logistics, a_calls, a_df,
                 a_ret, bvars, exports>>

\* _erp = self.clinops.query_erp_inventory()
SimQueryErp ==
  /\ a_pc = "erp"
  /\ a_bus' = get_erp_inventory(a_bus, clock, a_batches).bus
  /\ a_pc' = "send_alloc"
  /\ UNCHANGED <<gvars, a_state, a_seed, a_metrics, a_batches, a_local, a_clinops, a_logistics,
                 a_calls, a_df, a_ret, bvars, exports>>

\* ten times the first order
InitialQty_TenFold == 10 * 50

\* initial_qty = 50
InitialQty == 50

\* alloc_req = self.clinops.send_allocate_request(self.study_id, site["site_id"], initial_qty)
SimSendAllocate ==
  /\ a_pc = "send_alloc"
  /\ LET r == send_allocate_request(a_bus, clock, next_id, STUDY_ID, a_local.site_id,
                                    InitialQty)
     IN a_bus' = r.bus /\ a_local' = [a_local EXCEPT !.alloc_req = r.ret]
  /\ next_id' = next_id + 1
  /\ a_pc' = "allocate"
  /\ UNCHANGED <<clock, rng, a_state, a_seed, a_metrics, a_batches, a_clinops, a_logistics,
                 a_calls, a_df, a_ret, bvars, exports>>

\* the allocation asked again for as long as the response reports a shortfall
SimAllocate_RetryUntilFilled ==
  /\ a_pc = "allocate"
  /\ \E r \in {allocate_lots(a_bus, clock, a_batches, next_id, a_local.alloc_req)} :
        /\ a_bus' = r.bus
        /\ a_batches' = r.batches
        /\ a_local' = [a_local EXCEPT !.alloc_resp = r.ret]
        /\ a_pc' = IF r.ret.constraints = <<>> THEN "recv_alloc" ELSE "allocate"
  /\ next_id' = next_id + 1
  /\ UNCHANGED <<clock, rng, a_state, a_seed, a_metrics, a_clinops, a_logistics, a_calls, a_df,
                 a_ret, bvars, exports>>

\* alloc_resp = self.mes.allocate_lots(alloc_req)
SimAllocate ==
  /\ a_pc = "allocate"
  /\ \E r \in {allocate_lots(a_bus, clock, a_batches, next_id, a_local.alloc_req)} :
        /\ a_bus' = r.bus
        /\ a_batches' = r.batches
        /\ a_local' = [a_local EXCEPT !.alloc_resp = r.ret]
  /\ next_id' = next_id + 1
  /\ a_pc' = "recv_alloc"
  /\ UNCHANGED <<clock, rng, a_state, a_seed, a_metrics, a_clinops, a_logistics, a_calls, a_df,
                 a_ret, bvars, exports>>

\* the response received and the first batch restocked by one unit
SimReceiveAlloc_Restocking ==
  /\ a_pc = "recv_alloc"
  /\ LET r == receive_allocate_response(a_clinops, a_bus, clock, a_local.alloc_resp)
     IN a_clinops' = r.state /\ a_bus' = r.bus
  /\ a_batches' = [a_batches EXCEPT ![1].available_units = @ + 1]
  /\ a_pc' = "send_ship"
  /\ UNCHANGED <<gvars, a_state, a_seed, a_metrics, a_local, a_logistics, a_calls,
                 a_df, a_ret, bvars, exports>>

\* self.clinops.receive_allocate_response(alloc_resp)
SimReceiveAlloc ==
  /\ a_pc = "recv_alloc"
  /\ LET r == receive_allocate_response(a_clinops, a_bus, clock, a_local.alloc_resp)
     IN a_clinops' = r.state /\ a_bus' = r.bus
  /\ a_pc' = "send_ship"
  /\ UNCHANGED <<gvars, a_state, a_seed, a_metrics, a_batches, a_local, a_logistics, a_calls,
                 a_df, a_ret, bvars, exports>>

\* target_delivery = utcnow() + 3 days; ship_req = self.clinops.send_create_shipment(...)
SimSendShipment ==
  /\ a_pc = "send_ship"
  /\ LET target_delivery == clock + 3 * Day
         r == send_create_shipment(a_bus, clock, next_id, a_local.site_id,
                                   a_local.alloc_resp.batch_ids, target_delivery)
     IN a_bus' = r.bus /\ a_local' = [a_local EXCEPT !.ship_req = r.ret]
  /\ next_id' = next_id + 1
  /\ a_pc' = "plan"
  /\ UNCHANGED <<clock, rng, a_state, a_seed, a_metrics, a_batches, a_clinops, a_logistics,
                 a_calls, a_df, a_ret, bvars, exports>>

\* plan = self.logistics.plan_shipment(ship_req)
SimPlanShipment ==
  /\ a_pc = "plan"
  /\ LET r == plan_shipment(a_logistics, a_bus, clock, a_batches,
                            <<next_id, next_id + 1>>, a_local.ship_req)
     IN /\ a_logistics' = r.state
        /\ a_bus' = r.bus
        /\ a_local' = [a_local EXCEPT !.plan = r.ret]
  /\ next_id' = next_id + 2
  /\ a_pc' = "recv_plan"
  /\ UNCHANGED <<clock, rng, a_state, a_seed, a_metrics, a_batches, a_clinops, a_calls, a_df,
                 a_ret, bvars, exports>>

\* self.clinops.receive_shipment_plan(plan) and the three metrics set after it
SimReceivePlan ==
  /\ a_pc = "recv_plan"
  /\ LET r == receive_shipment_plan(a_clinops, a_bus, clock, a_local.plan)
     IN a_clinops' = r.state /\ a_bus' = r.bus
  /\ a_metrics' = [a_metrics EXCEPT
        !.order_to_delivery_days =
           (a_local.plan.eta - a_local.event.activation_date) \div Day,
        !.shipment_cost = a_local.plan.cost,
        !.compliance_events = 0]
  /\ a_pc' = "enroll7"
  /\ UNCHANGED <<gvars, a_state, a_seed, a_batches, a_local, a_logistics, a_calls, a_df, a_ret,
                 bvars, exports>>

\* the accuracy given up as zero when nothing is forecast
ForecastAccuracy_ZeroWithoutForecast(actual_supply, forecast_total) ==
  IF forecast_total > 0
  THEN (IF actual_supply < forecast_total THEN Rat(actual_supply, forecast_total)
        ELSE Rat(1, 1))
  ELSE Rat(0, 1)

\* min(1.0, actual_supply / forecast_total) if forecast_total > 0 else 1.0
ForecastAccuracy(actual_supply, forecast_total) ==
  IF forecast_total > 0
  THEN (IF actual_supply < forecast_total THEN Rat(actual_supply, forecast_total)
        ELSE Rat(1, 1))
  ELSE Rat(1, 1)

\* the accuracy measured against the 90-day forecast
SimEnroll7_LongHorizon ==
  /\ a_pc = "enroll7"
  /\ \E r \in {get_enrollment_data(a_bus, clock, rng, STUDY_ID, a_local.site_id, 90)} :
     \E forecast_total \in {SumSeq(r.ret.forecast_daily)} :
        /\ a_bus' = r.bus
        /\ rng' = r.rng
        /\ a_local' = [a_local EXCEPT !.enroll7 = r.ret]
        /\ a_metrics' = [a_metrics EXCEPT !.forecast_accuracy =
                            ForecastAccuracy(50, forecast_total)]
  /\ a_pc' = "idle"
  /\ UNCHANGED <<clock, next_id, a_state, a_seed, a_batches, a_clinops, a_logistics,
                 a_calls, a_df, a_ret, bvars, exports>>

\* enroll7 = self.cro.get_site_enrollment(..., days=7) and forecast_accuracy
SimEnroll7 ==
  /\ a_pc = "enroll7"
  /\ \E r \in {get_enrollment_data(a_bus, clock, rng, STUDY_ID, a_local.site_id, 7)} :
     \E forecast_total \in {SumSeq(r.ret.forecast_daily)} :
        /\ a_bus' = r.bus
        /\ rng' = r.rng
        /\ a_local' = [a_local EXCEPT !.enroll7 = r.ret]
        /\ a_metrics' = [a_metrics EXCEPT !.forecast_accuracy =
                            ForecastAccuracy(50, forecast_total)]
  /\ a_pc' = "idle"
  /\ UNCHANGED <<clock, next_id, a_state, a_seed, a_batches, a_clinops, a_logistics,
                 a_calls, a_df, a_ret, bvars, exports>>

\* sim.timeline_df(), between two activations
SimExport ==
  /\ a_state = "ready" /\ a_pc = "idle"
  /\ exports < MaxExports
  /\ a_df' = ToDataFrame(a_bus)
  /\ exports' = exports + 1
  /\ UNCHANGED <<gvars, a_state, a_seed, a_pc, a_bus, a_metrics, a_batches, a_local, a_clinops,
                 a_logistics, a_calls, a_ret, bvars>>

(***************************************************************************)
(* The wall clock: the instants at which the model lets it be read.        *)
(***************************************************************************)
\* 23:30 of day 0, half an hour before midnight
ClockStart == Day - 1
ClockValues ==
  {ClockStart, ClockStart + 1, ClockStart + LongJumpDays * Day,
   ClockStart + 2 * LongJumpDays * Day}

\* time passes
Tick ==
  /\ \E t \in ClockValues : t > clock /\ clock' = t
  /\ UNCHANGED <<rng, next_id, bvars, avars, exports>>

(***************************************************************************)
(* Direct calls of single operations on the agents and the provider of a   *)
(* constructed Simulation, as a test of one operation makes them.          *)
(***************************************************************************)
Quantities == {0 - 5, 0, 50, 130, 2000}
BatchIds == {"BATCH-001", "BATCH-010", "BATCH-999"}
Horizons == {0, 7, 90}
\* the on_date values tried: now, 130 days from now, and the very instant the
\* first batch expires
OnDates ==
  {clock, clock + 130 * Day}
    \cup {a_batches[k].expiry_date : k \in {j \in 1..Len(a_batches) : j = 1}}

CanCall == a_state = "ready" /\ a_pc = "idle" /\ a_calls < MaxOpCalls

\* the bus after a direct call, and the call with its arguments and its result
Returned(op, args, r) ==
  /\ a_bus' = r.bus
  /\ a_ret' = [op |-> op, args |-> args, val |-> r.ret]
  /\ a_calls' = a_calls + 1

\* self.mes.allocate_lots(AllocateLotRequest(study_id=..., site_id=..., quantity=q))
CallAllocateLots(site_id, quantity) ==
  /\ CanCall
  /\ LET req == AllocateLotRequest(next_id, clock, STUDY_ID, site_id, quantity)
         r == allocate_lots(a_bus, clock, a_batches, next_id + 1, req)
     IN /\ Returned("allocate_lots", <<req>>, r)
        /\ a_batches' = r.batches
        /\ a_local' = [a_local EXCEPT !.alloc_req = req, !.alloc_resp = r.ret]
  /\ next_id' = next_id + 2
  /\ UNCHANGED <<clock, rng, a_state, a_seed, a_pc, a_metrics, a_clinops, a_logistics, a_df,
                 bvars, exports>>

\* the requests tried on plan_shipment: the batch ids and how far ahead of now
\* the target delivery lies, in half hours
ShipmentInputs ==
  {<<<<>>, 3 * Day>>,
   <<<<"BATCH-001">>, 2 * Day>>,
   <<<<"BATCH-001">>, 2 * Day + 1>>,
   <<<<"BATCH-001", "BATCH-002">>, 3 * Day>>,
   <<<<"BATCH-001", "BATCH-002">>, 1>>,
   <<<<"BATCH-001", "BATCH-002", "BATCH-003">>, 0 - Day>>}

\* self.logistics.plan_shipment(CreateShipmentRequest(site_id=..., batch_ids=...,
\* target_delivery_date=...))
CallPlanShipment(site_id, batch_ids, target_delivery_date) ==
  /\ CanCall
  /\ LET req == CreateShipmentRequest(next_id, clock, site_id, batch_ids,
                                      target_delivery_date)
         r == plan_shipment(a_logistics, a_bus, clock, a_batches,
                            <<next_id + 1, next_id + 2>>, req)
     IN /\ Returned("plan_shipment", <<req>>, r)
        /\ a_logistics' = r.state
        /\ a_local' = [a_local EXCEPT !.ship_req = req, !.plan = r.ret]
  /\ next_id' = next_id + 3
  /\ UNCHANGED <<clock, rng, a_state, a_seed, a_pc, a_metrics, a_batches, a_clinops, a_df,
                 bvars, exports>>

QueryFrame ==
  UNCHANGED <<clock, next_id, a_state, a_seed, a_pc, a_metrics, a_batches, a_local, a_clinops,
              a_logistics, a_df, bvars, exports>>

CallGetTrialSites ==
  /\ CanCall
  /\ Returned("get_trial_sites", <<>>, get_trial_sites(a_bus, clock))
  /\ UNCHANGED rng /\ QueryFrame

CallGetEnrollmentData(site_id, days) ==
  /\ CanCall
  /\ LET r == get_enrollment_data(a_bus, clock, rng, STUDY_ID, site_id, days)
     IN Returned("get_enrollment_data", <<site_id, days>>, r) /\ rng' = r.rng
  /\ QueryFrame

CallGetBatchStability ==
  /\ CanCall
  /\ Returned("get_batch_stability", <<>>, get_batch_stability(a_bus, clock, a_batches))
  /\ UNCHANGED rng /\ QueryFrame

CallCheckBatchExpiry(batch_id, on_date) ==
  /\ CanCall
  /\ Returned("check_batch_expiry", <<batch_id, on_date>>,
              check_batch_expiry(a_bus, clock, a_batches, batch_id, on_date))
  /\ UNCHANGED rng /\ QueryFrame

CallGetDepotInventory ==
  /\ CanCall
  /\ Returned("get_depot_inventory", <<>>, get_depot_inventory(a_bus, clock, a_batches))
  /\ UNCHANGED rng /\ QueryFrame

CallCheckComplianceRules(site_id) ==
  /\ CanCall
  /\ Returned("check_compliance_rules", <<site_id>>, check_compliance_rules(a_bus, clock, site_id))
  /\ UNCHANGED rng /\ QueryFrame

CallGetErpInventory ==
  /\ CanCall
  /\ Returned("get_erp_inventory", <<>>, get_erp_inventory(a_bus, clock, a_batches))
  /\ UNCHANGED rng /\ QueryFrame

(***************************************************************************)
(* Specifications.                                                         *)
(***************************************************************************)
Init ==
  /\ clock = ClockStart
  /\ rng \in 0..(RngMod - 1)
  /\ next_id = 1
  /\ b_state = "none" /\ b_seed = 0 /\ b_now = 0 /\ b_bus = <<>> /\ b_metrics = BeforeMetrics0
  /\ b_batches = <<>> /\ b_cfg = DefaultCfg /\ b_calls = 0 /\ b_df = NoFrame
  /\ a_state = "none" /\ a_seed = 0 /\ a_pc = "idle" /\ a_bus = <<>> /\ a_metrics = SimMetrics0
  /\ a_batches = <<>> /\ a_local = Locals0 /\ a_clinops = AgentState0
  /\ a_logistics = AgentState0 /\ a_calls = 0 /\ a_df = NoFrame /\ a_ret = NoRet
  /\ exports = 0

\* the human regime: one BeforeSimulation, activated with any configuration
NextBefore ==
  \/ \E seed \in Seeds : NewBefore(seed)
  \/ \E site_id \in Sites, cfg \in BeforeConfigs : BeforeActivate(site_id, cfg)

SpecBefore == Init /\ [][NextBefore]_vars

\* the agent regime: one Simulation, activated while time passes
SimStep ==
  \/ \E site_id \in Sites : SimGetSites(site_id)
  \/ SimEnroll90
  \/ SimSiteActivated
  \/ SimQueryErp
  \/ SimSendAllocate
  \/ SimAllocate
  \/ SimReceiveAlloc
  \/ SimSendShipment
  \/ SimPlanShipment
  \/ SimReceivePlan
  \/ SimEnroll7

NextAfter ==
  \/ \E seed \in Seeds : NewSimulation(seed)
  \/ SimStep
  \/ Tick

SpecAfter == Init /\ [][NextAfter]_vars

\* allocate_lots called directly with any quantity, while time passes
NextAlloc ==
  \/ \E seed \in Seeds : NewSimulation(seed)
  \/ \E site_id \in Sites, quantity \in Quantities : CallAllocateLots(site_id, quantity)
  \/ Tick

SpecAlloc == Init /\ [][NextAlloc]_vars

\* the two simulations constructed, each with any seed, on any date
NextBuild ==
  \/ \E seed \in Seeds : NewBefore(seed)
  \/ \E seed \in Seeds : NewSimulation(seed)
  \/ Tick

SpecBuild == Init /\ [][NextBuild]_vars

\* the two replying agents called directly, while time passes
NextReply ==
  \/ \E seed \in Seeds : NewSimulation(seed)
  \/ \E site_id \in Sites, quantity \in {50, 2000} : CallAllocateLots(site_id, quantity)
  \/ \E site_id \in Sites, i \in ShipmentInputs :
        CallPlanShipment(site_id, i[1], clock + i[2])
  \/ Tick

SpecReply == Init /\ [][NextReply]_vars

\* the stock read through the ERP query between allocations, while time passes
NextStock ==
  \/ \E seed \in Seeds : NewSimulation(seed)
  \/ CallGetErpInventory
  \/ \E site_id \in Sites, quantity \in {0, 50, 2000} : CallAllocateLots(site_id, quantity)
  \/ Tick

SpecStock == Init /\ [][NextStock]_vars

\* the provider's queries called directly
NextProvider ==
  \/ \E seed \in Seeds : NewSimulation(seed)
  \/ CallGetTrialSites
  \/ \E site_id \in Sites, days \in Horizons : CallGetEnrollmentData(site_id, days)
  \/ CallGetBatchStability
  \/ \E batch_id \in BatchIds, on_date \in OnDates :
        CallCheckBatchExpiry(batch_id, on_date)
  \/ CallGetDepotInventory
  \/ \E site_id \in Sites : CallCheckComplianceRules(site_id)
  \/ CallGetErpInventory

SpecProvider == Init /\ [][NextProvider]_vars

\* both regimes in one process, as the application runs them: the defaults
\* and one short configuration for the human regime
AppConfigs ==
  {DefaultCfg, [DefaultCfg EXCEPT !.logistics_rounds = 1, !.email_delay_hours = 0]}

\* run_before and run_after construct with seed=42
AppSeeds == {42}

Next ==
  \/ \E seed \in AppSeeds : NewBefore(seed)
  \/ \E site_id \in Sites, cfg \in AppConfigs : BeforeActivate(site_id, cfg)
  \/ BeforeExport
  \/ \E seed \in AppSeeds : NewSimulation(seed)
  \/ SimStep
  \/ SimExport

Spec == Init /\ [][Next]_vars

\* both scripts run to their end: the human regime with every round count up to
\* the longest negotiation, the agent regime step by step, time passing between
\* activations.  A BeforeSimulation runs its script once, as run_before does.  A
\* call of activate_new_site that has started keeps running: its next step is
\* always taken.
RoundCfgs == {[DefaultCfg EXCEPT !.logistics_rounds = r] : r \in 0..MaxRounds}

NextLive ==
  \/ \E seed \in AppSeeds : NewBefore(seed)
  \/ b_calls = 0 /\ \E site_id \in Sites, cfg \in RoundCfgs : BeforeActivate(site_id, cfg)
  \/ \E seed \in AppSeeds : NewSimulation(seed)
  \/ SimStep
  \/ a_pc = "idle" /\ Tick

SpecLive == Init /\ [][NextLive]_vars /\ WF_vars(SimStep)

(***************************************************************************)
(* Properties of the human regime (SpecBefore).                            *)
(***************************************************************************)
\* the instance has run activate_new_site exactly once
BeforeFresh == b_state = "ready" /\ b_calls = 1

\* the hours the script hands to _advance for a configuration, in half hours
AdvancedHours(cfg) ==
  cfg.cro_review_delay_hours
  + (IF cfg.ticket_queue_delay_hours # <<>> THEN 2 * cfg.ticket_queue_delay_hours[1]
     ELSE cfg.wms_email_delay_hours + cfg.mesqa_email_delay_hours)
  + 2 * cfg.system_lookup_delay_hours
  + (IF cfg.logistics_rounds >= 1
     THEN cfg.logistics_rounds * cfg.logistics_roundtrip_hours
          + (IF cfg.email_delay_hours > 0 THEN cfg.email_delay_hours ELSE 0)
     ELSE 0)

\* C1 as stated: after activate_new_site on a fresh instance the bus holds
\* 8 + 2*logistics_rounds + (1 if email_clarification_delay > 0 else 0) events.
C1_CountAsStated ==
  BeforeFresh =>
    Len(b_bus) = 8 + 2 * b_cfg.logistics_rounds
                   + (IF b_cfg.email_delay_hours > 0 THEN 1 ELSE 0)

\* C1 amended: the clarification detour logs two events (request and reply) and
\* only runs inside a round, so the bus holds 8 + 2*max(0, logistics_rounds)
\* + (2 if email_clarification_delay > 0 and logistics_rounds >= 1 else 0) events.
C1_EventCount ==
  BeforeFresh =>
    Len(b_bus) = 8 + 2 * Max(0, b_cfg.logistics_rounds)
                   + (IF b_cfg.email_delay_hours > 0 /\ b_cfg.logistics_rounds >= 1
                      THEN 2 ELSE 0)

\* the default run: two rounds and the detour, 14 events
C1_Witness ==
  BeforeFresh /\ b_cfg = DefaultCfg /\ Len(b_bus) = 14
  /\ b_bus[11].channel = CHANNEL_EMAIL /\ b_bus[12].channel = CHANNEL_EMAIL

\* C2: after activate_new_site on a fresh instance the last event's timestamp is
\* the run-start time plus the sum of the hours handed to _advance, and
\* metrics["latency_hours"] is that sum.
C2_LastTimestamp ==
  BeforeFresh =>
    /\ Last(b_bus).t = b_bus[1].t + AdvancedHours(b_cfg)
    /\ b_bus[1].t = ClockStart
    /\ RatEq(b_metrics.latency_hours, Rat(AdvancedHours(b_cfg), 2))
    /\ b_now = Last(b_bus).t

\* the default run ends 235 hours after its start
C2_Witness ==
  BeforeFresh /\ b_cfg = DefaultCfg
  /\ Last(b_bus).t = ClockStart + Hours(235)
  /\ b_metrics.latency_hours = Rat(Hours(235), 2)

\* C3 as stated: the timestamps on the bus of the human regime never decrease in
\* append order, whatever configuration activate_new_site accepted.
C3_TimestampsMonotone ==
  \A i \in 1..(Len(b_bus) - 1) : b_bus[i].t <= b_bus[i + 1].t

\* a configuration the error-handling design admits: no negative duration and
\* at least one negotiation round
ValidCfg(cfg) ==
  /\ cfg.cro_review_delay_hours >= 0 /\ cfg.wms_email_delay_hours >= 0
  /\ cfg.mesqa_email_delay_hours >= 0 /\ cfg.logistics_roundtrip_hours >= 0
  /\ cfg.email_delay_hours >= 0 /\ cfg.system_lookup_delay_hours >= 0
  /\ (cfg.ticket_queue_delay_hours # <<>> => cfg.ticket_queue_delay_hours[1] >= 0)
  /\ cfg.logistics_rounds >= 1

\* C4 as stated: the bus never holds events of a scenario whose configuration
\* has a negative duration or a zero or negative logistics_rounds.
C4_NoInvalidScenario ==
  b_calls >= 1 /\ b_bus # <<>> => ValidCfg(b_cfg)

(***************************************************************************)
(* Properties of the bus (Spec).                                           *)
(***************************************************************************)
\* C5: the bus is append-only in both regimes: every step leaves the events
\* logged so far as a prefix of the events afterwards.
C5_AppendOnly ==
  [][IsPrefix(b_bus, b_bus') /\ IsPrefix(a_bus, a_bus')]_vars

\* both regimes have logged and a snapshot has been taken in between
C5_Witness ==
  /\ exports >= 1 /\ Len(b_bus) >= 14 /\ Len(a_bus) >= 22
  /\ b_df # NoFrame /\ Len(b_df.rows) < Len(b_bus)

\* row i of a frame holds the seven fields of event i
RowMatches(row, e) ==
  /\ DOMAIN row = {"t", "protocol", "channel", "actor", "target", "action", "details"}
  /\ row.t = e.t /\ row.protocol = e.protocol /\ row.channel = e.channel
  /\ row.actor = e.actor /\ row.target = e.target /\ row.action = e.action
  /\ row.details = e.details

\* the frame lists exactly the events of the bus, in logged order
FaithfulFrame(df, bus) ==
  /\ df.columns = <<"t", "protocol", "channel", "actor", "target", "action", "details">>
  /\ Len(df.rows) = Len(bus)
  /\ \A i \in 1..Len(bus) : RowMatches(df.rows[i], bus[i])

\* the frame was taken from the bus as it is now (the bus only grows)
CurrentFrame(df, bus) == df # NoFrame /\ Len(df.rows) = Len(bus)

\* C6: an export leaves both buses unchanged and returns a frame with one row
\* per event, in logged order, with all seven fields; an export that follows an
\* export with no log in between returns an equal frame.
C6_ExportIdempotent ==
  [][exports' = exports + 1 =>
       /\ b_bus' = b_bus /\ a_bus' = a_bus
       /\ \/ FaithfulFrame(b_df', b_bus) /\ a_df' = a_df
          \/ FaithfulFrame(a_df', a_bus) /\ b_df' = b_df
       /\ CurrentFrame(b_df, b_bus) => b_df' = b_df
       /\ CurrentFrame(a_df, a_bus) => a_df' = a_df]_vars

\* two exports of the human regime's bus after its default run
C6_Witness ==
  /\ exports = 2 /\ a_df = NoFrame /\ b_calls = 1
  /\ Len(b_bus) = 14 /\ FaithfulFrame(b_df, b_bus)

(***************************************************************************)
(* Properties of the provider's queries (SpecProvider).                    *)
(***************************************************************************)
ExternalSystems == {"CTMS", "LIMS", "WMS", "Compliance", "ERP"}

\* C7: every provider query appends exactly one event to the bus it is given,
\* with channel 'mcp', protocol MCP and the external system as target.
C7_OneMcpEventPerQuery ==
  [][a_calls' = a_calls + 1 =>
       /\ Len(a_bus') = Len(a_bus) + 1
       /\ IsPrefix(a_bus, a_bus')
       /\ Last(a_bus').channel = "mcp"
       /\ Last(a_bus').protocol = "MCP"
       /\ Last(a_bus').target \in ExternalSystems
       /\ Last(a_bus').action = a_ret'.op]_vars

\* three queries made, the last an expiry check of an unknown batch
C7_Witness ==
  /\ a_calls = 3 /\ Len(a_bus) = 3
  /\ a_ret.op = "check_batch_expiry" /\ a_ret.val = FALSE
  /\ a_bus[1].action = "get_enrollment_data" /\ a_bus[2].action = "get_erp_inventory"

(***************************************************************************)
(* Properties of allocate_lots (SpecAlloc).                                *)
(***************************************************************************)
\* a direct call of allocate_lots is being made
AllocStep == a_calls' = a_calls + 1

\* the batch is valid at the release date of a call made now
ValidNow(b) == b.expiry_date > clock + 3 * Day

\* the units of the valid batches
ValidStock(batches) ==
  SumSeq([k \in 1..Len(batches) |->
            IF ValidNow(batches[k]) THEN batches[k].available_units ELSE 0])

\* the expiry date of the batch with that id
ExpiryOf(batch_id) ==
  LET k == CHOOSE j \in 1..Len(a_batches) : a_batches[j].batch_id = batch_id
  IN a_batches[k].expiry_date

\* C8: the batch ids of the response are in ascending order of expiry date, and
\* a batch gives units only if every valid batch expiring earlier is at zero
\* after the call.
C8_FifoByExpiry ==
  [][AllocStep =>
       LET ids == a_ret'.val.batch_ids
       IN /\ \A i \in 1..Len(ids), j \in 1..Len(ids) :
               i < j => ExpiryOf(ids[i]) < ExpiryOf(ids[j])
          /\ \A k \in 1..Len(a_batches) :
               a_batches'[k].available_units < a_batches[k].available_units =>
                 /\ \E i \in 1..Len(ids) : ids[i] = a_batches[k].batch_id
                 /\ \A j \in 1..Len(a_batches) :
                      (ValidNow(a_batches[j])
                       /\ a_batches[j].expiry_date < a_batches[k].expiry_date)
                        => a_batches'[j].available_units = 0]_vars

\* a call that emptied the first batch and went on to the second
C8_Witness ==
  /\ a_ret.op = "allocate_lots" /\ Len(a_ret.val.batch_ids) = 2
  /\ a_ret.val.batch_ids[1] = "BATCH-001" /\ a_ret.val.batch_ids[2] = "BATCH-002"
  /\ a_batches[1].available_units = 0 /\ a_batches[2].available_units > 0

\* C9: a call with a positive quantity lowers the batches by
\* min(quantity, valid stock before the call) in total, never by more than the
\* quantity, and no batch goes below zero.
C9_TakenIsMin ==
  [][AllocStep /\ a_local'.alloc_req.quantity > 0 =>
       LET quantity == a_local'.alloc_req.quantity
           taken == TotalUnits(a_batches) - TotalUnits(a_batches')
       IN /\ taken = Min(quantity, ValidStock(a_batches))
          /\ taken <= quantity
          /\ \A k \in 1..Len(a_batches) :
               /\ a_batches'[k].available_units >= 0
               /\ a_batches'[k].available_units <= a_batches[k].available_units]_vars

\* 130 units taken from a stock that had them: the first batch is empty, the
\* second partly used
C9_Witness ==
  /\ a_ret.op = "allocate_lots" /\ a_calls = 1 /\ a_local.alloc_req.quantity = 130
  /\ a_batches[1].available_units = 0
  /\ a_ret.val.constraints = <<>> /\ Len(a_ret.val.batch_ids) = 2

\* C10: when the quantity exceeds the valid stock the response carries a
\* constraint note and the call takes exactly the valid stock; when the quantity
\* can be met the constraint list is empty.
C10_ShortfallNote ==
  [][AllocStep =>
       LET quantity == a_local'.alloc_req.quantity
           taken == TotalUnits(a_batches) - TotalUnits(a_batches')
       IN /\ a_ret'.op = "allocate_lots"
          /\ quantity > ValidStock(a_batches) =>
               a_ret'.val.constraints # <<>> /\ taken = ValidStock(a_batches)
          /\ quantity <= ValidStock(a_batches) => a_ret'.val.constraints = <<>>]_vars

\* a request for 2000 units emptied every batch and was answered with a note
C10_Witness ==
  /\ a_ret.op = "allocate_lots" /\ a_local.alloc_req.quantity = 2000
  /\ a_ret.val.constraints # <<>> /\ TotalUnits(a_batches) = 0
  /\ Len(a_ret.val.batch_ids) = 10

\* C25: allocate_lots never takes units from a batch that is not valid at the
\* release date (now + 3 days): a batch whose expiry date is not strictly after
\* the release date keeps its quantity and is not among the response's batch ids.
C25_OnlyValidBatches ==
  [][AllocStep =>
       LET ids == a_ret'.val.batch_ids
       IN \A k \in 1..Len(a_batches) :
            (~ValidNow(a_batches[k])
             \/ DateOf(a_batches[k].expiry_date) <= DateOf(clock + 3 * Day)) =>
              /\ a_batches'[k].available_units = a_batches[k].available_units
              /\ \A i \in 1..Len(ids) : ids[i] # a_batches[k].batch_id]_vars

\* a call that passed over the first batch, expiring on the day of the release
\* with units left, and took from the second
C25_Witness ==
  /\ a_ret.op = "allocate_lots" /\ a_ret.val.batch_ids # <<>>
  /\ DateOf(a_batches[1].expiry_date) = DateOf(a_ret.val.release_date)
  /\ a_batches[1].available_units > 0
  /\ a_ret.val.batch_ids[1] = "BATCH-002"

(***************************************************************************)
(* The stock as the ERP query reports it (SpecStock).                      *)
(***************************************************************************)
\* a direct call of get_erp_inventory is being made
ErpStep == a_calls' = a_calls + 1 /\ a_ret'.op = "get_erp_inventory"

\* allocate_lots is being called and the call before it was get_erp_inventory
AllocAfterErp ==
  a_calls' = a_calls + 1 /\ a_ret'.op = "allocate_lots" /\ a_ret.op = "get_erp_inventory"

\* C26: get_erp_inventory returns the sum of the available quantities of all
\* batches at the time of the call, with batch_count 10; an allocation made
\* after a call leaves a sum lower than the total returned by exactly the amount
\* allocated, which is what the next call returns.
C26_ErpTotal ==
  [][/\ ErpStep =>
          /\ a_ret'.val.total_units = TotalUnits(a_batches)
          /\ a_ret'.val.batch_count = 10
          /\ a_batches' = a_batches
     /\ AllocAfterErp =>
          LET quantity == a_local'.alloc_req.quantity
              allocated == Min(Max(quantity, 0), ValidStock(a_batches))
          IN /\ TotalUnits(a_batches') = a_ret.val.total_units - allocated
             /\ Len(a_batches') = 10]_vars

\* the query made after an allocation of 2000 units emptied the stock: no unit
\* left in ten batches
C26_Witness ==
  /\ a_ret.op = "get_erp_inventory" /\ a_calls >= 2
  /\ a_local.alloc_req.quantity = 2000 /\ a_local.alloc_resp.constraints # <<>>
  /\ a_ret.val.total_units = 0 /\ a_ret.val.batch_count = 10

(***************************************************************************)
(* Termination of the two scripts (SpecLive).                              *)
(***************************************************************************)
\* the events one agent-regime activation logs: 12 by the agents and the
\* provider's single queries, and one expiry check for each of the 10 batches
EventsPerActivation == 12 + 10

\* C21: every simulation script terminates: for every finite logistics_rounds
\* and every stock level (also when no batch is valid), an activate_new_site
\* that has started reaches its final step after a bounded number of logged
\* events and returns with the metrics set.
C21_Terminates ==
  /\ (a_pc # "idle") ~> (a_pc = "idle" /\ a_metrics.shipment_cost >= 500)
  /\ [](Len(a_bus) <= EventsPerActivation * a_calls)
  /\ [](b_calls >= 1 =>
          /\ Len(b_bus) <= b_calls * (8 + 2 * MaxRounds + 2)
          /\ b_metrics.shipment_cost >= 740
          /\ b_metrics.latency_hours.num > 0)

\* an activation that found no valid batch has returned: nothing allocated, a
\* shortfall note, and the metrics set
C21_Witness ==
  /\ a_state = "ready" /\ a_pc = "idle" /\ a_calls >= 1
  /\ a_local.alloc_resp.batch_ids = <<>> /\ a_local.alloc_resp.constraints # <<>>
  /\ a_metrics.shipment_cost = a_local.plan.cost /\ a_local.plan.cost >= 500
  /\ b_calls >= 1 /\ Len(b_bus) = 8 + 2 * MaxRounds + 2

(***************************************************************************)
(* Metrics of the human regime (SpecBefore).                               *)
(***************************************************************************)
\* C18: with the default configuration on a fresh instance the accumulated
\* latency is 168 + 18 + 0.5 + 24 + 0.5 + 8 + 8 + 8 = 235 hours and
\* order_to_delivery_days is 235/24 + 1.
C18_DefaultLatency ==
  (BeforeFresh /\ b_cfg = DefaultCfg) =>
    /\ RatEq(b_metrics.latency_hours, Rat(235, 1))
    /\ RatEq(b_metrics.latency_hours, Rat(2 * (168 + 18 + 24 + 8 + 8 + 8) + 1 + 1, 2))
    /\ RatEq(b_metrics.order_to_delivery_days, Rat(235 + 24, 24))

\* the default run has ended: 14 events, and more than ten days to delivery
C18_Witness ==
  /\ BeforeFresh /\ b_cfg = DefaultCfg /\ Len(b_bus) = 14
  /\ b_metrics.latency_hours.num > 0
  /\ b_metrics.order_to_delivery_days.num > 10 * b_metrics.order_to_delivery_days.den

\* C19: after a human-regime run order_to_delivery_days = latency_hours/24 + 1,
\* shipment_cost is 740 when logistics_rounds <= 2 and 940 when it is larger,
\* compliance_events is 0 and forecast_accuracy is 0.8, for every configuration.
C19_BeforeMetrics ==
  b_calls >= 1 =>
    /\ RatEq(b_metrics.order_to_delivery_days,
             Rat(b_metrics.latency_hours.num + 24 * b_metrics.latency_hours.den,
                 24 * b_metrics.latency_hours.den))
    /\ b_cfg.logistics_rounds <= 2 => b_metrics.shipment_cost = 740
    /\ b_cfg.logistics_rounds > 2 => b_metrics.shipment_cost = 940
    /\ b_metrics.compliance_events = 0
    /\ RatEq(b_metrics.forecast_accuracy, Rat(4, 5))

\* a run of three rounds: the dearer shipment
C19_Witness ==
  /\ b_state = "ready" /\ b_calls >= 1 /\ b_cfg.logistics_rounds = 3
  /\ b_metrics.shipment_cost = 940 /\ Len(b_bus) >= 14

(***************************************************************************)
(* Properties of the provider and of the agents' replies.                  *)
(***************************************************************************)
\* a direct call of check_batch_expiry is being made
ExpiryStep == a_calls' = a_calls + 1 /\ a_ret'.op = "check_batch_expiry"

\* C11: check_batch_expiry(batch_id, on_date) returns true exactly when a batch
\* with that id exists and its expiry date is strictly later than on_date; for
\* an unknown id it returns false; it leaves every batch quantity unchanged.
C11_ExpiryCheck ==
  [][ExpiryStep =>
       LET batch_id == a_ret'.args[1]
           on_date == a_ret'.args[2]
           known == {k \in 1..Len(a_batches) : a_batches[k].batch_id = batch_id}
       IN /\ a_ret'.val \in BOOLEAN
          /\ a_ret'.val <=> \E k \in known : a_batches[k].expiry_date > on_date
          /\ known = {} => a_ret'.val = FALSE
          /\ a_batches' = a_batches]_vars

\* the first batch asked about at the instant it expires: known, and not valid
C11_Witness ==
  /\ a_ret.op = "check_batch_expiry" /\ a_ret.args[1] = "BATCH-001"
  /\ a_ret.args[2] = a_batches[1].expiry_date /\ a_ret.val = FALSE

\* a direct call of plan_shipment is being made
PlanStep == a_calls' = a_calls + 1 /\ a_ret'.op = "plan_shipment"

\* whole days from today's date to the date of the target, at least 1
LeadDays(req) == Max(1, (req.target_delivery_date \div Day) - (clock \div Day))

\* C12: plan_shipment returns cost = 500 + 120 * (number of batch ids) + (400 if
\* lead_days <= 2 else 0), departure = now + 1 day, and ETA = now + 1 day when
\* the surcharge is applied, otherwise now + 2 days.
C12_PlanCost ==
  [][PlanStep =>
       LET req == a_ret'.args[1]
           plan == a_ret'.val
           surcharge == LeadDays(req) <= 2
       IN /\ plan.cost = 500 + 120 * Len(req.batch_ids) + (IF surcharge THEN 400 ELSE 0)
          /\ plan.departure_date = clock + Day
          /\ surcharge => plan.eta = clock + Day
          /\ ~surcharge => plan.eta = clock + 2 * Day]_vars

\* one batch, delivery wanted two dates ahead: 500 + 120 + 400, ETA tomorrow
C12_Witness ==
  /\ a_ret.op = "plan_shipment" /\ Len(a_ret.args[1].batch_ids) = 1
  /\ (a_ret.args[1].target_delivery_date \div Day) - (a_ret.args[1].timestamp \div Day) = 2
  /\ a_ret.val.cost = 1020 /\ a_ret.val.eta = a_ret.args[1].timestamp + Day

\* C13: the AllocateLotResponse returned by allocate_lots has request_id equal to
\* the message_id of the request it was given, and the ShipmentPlan returned by
\* plan_shipment has request_id equal to the message_id of its request.
C13_RequestId ==
  [][a_calls' = a_calls + 1 /\ a_ret'.op \in {"allocate_lots", "plan_shipment"} =>
       /\ a_ret'.val.request_id = a_ret'.args[1].message_id
       /\ a_ret'.val.message_id # a_ret'.args[1].message_id]_vars

\* both agents have answered a request, each naming the request it was given
C13_Witness ==
  /\ a_local.alloc_req.message_id > 0 /\ a_local.ship_req.message_id > 0
  /\ a_local.alloc_resp.request_id = a_local.alloc_req.message_id
  /\ a_local.plan.request_id = a_local.ship_req.message_id
  /\ a_local.alloc_req.message_id # a_local.ship_req.message_id

\* what C15 says of a batch set
TenBatches(batches) ==
  /\ Len(batches) = 10
  /\ \A i \in 1..10, j \in 1..10 :
        i < j => batches[i].expiry_date < batches[j].expiry_date
  /\ \A i \in 1..10 : batches[i].available_units \in 80..200

\* the date a batch set was generated on: the first batch is made 60 days earlier
RunStartDate(batches) == DateOf(batches[1].manufacture_date) + 60

\* C15: for every seed, construction produces exactly 10 batches whose expiry
\* dates strictly increase with the index and whose quantities lie in [80, 200];
\* two constructions with the same seed on the same date give the same batches.
C15_BatchSet ==
  /\ a_state = "ready" => TenBatches(a_batches)
  /\ b_state = "ready" => TenBatches(b_batches)
  /\ (a_state = "ready" /\ b_state = "ready" /\ a_seed = b_seed
      /\ RunStartDate(a_batches) = RunStartDate(b_batches)) => a_batches = b_batches

\* both simulations constructed with seed 7 on the same date
C15_Witness ==
  /\ a_state = "ready" /\ b_state = "ready" /\ a_seed = 7 /\ b_seed = 7
  /\ RunStartDate(a_batches) = RunStartDate(b_batches)
  /\ a_batches = b_batches /\ Len(a_batches) = 10
  /\ a_batches[1].available_units # a_batches[2].available_units

\* the generator a provider built with that seed leaves behind, and the state
\* it is in after k more draws when nothing else draws from it
SeededRng(seed) == MockSystems(seed, 0).rng
DrawsLater(seed, k) == RngAfter(SeededRng(seed), k)

\* the forecast a provider built with that seed returns to its first request
FirstForecast(seed, site_id, days) ==
  get_enrollment_data(<<>>, 0, SeededRng(seed), STUDY_ID, site_id, days).ret

\* C16 as stated: a get_enrollment_data call returns the forecast that the seed,
\* the site and the horizon determine, the one a freshly built provider returns,
\* whatever queries and forecast requests were made before the call.
C16_ForecastBySeed ==
  [][a_calls' = a_calls + 1 /\ a_ret'.op = "get_enrollment_data" =>
       a_ret'.val = FirstForecast(a_seed, a_ret'.args[1], a_ret'.args[2])]_vars

\* the two forecasts the n-th activation of a Simulation built with that seed
\* fetches when nothing but the Simulation runs: each activation draws 90 + 7
\* numbers
AloneEnroll90(seed, site_id, n) ==
  get_enrollment_data(<<>>, 0, DrawsLater(seed, (90 + 7) * (n - 1)),
                      STUDY_ID, site_id, 90).ret
AloneEnroll7(seed, site_id, n) ==
  get_enrollment_data(<<>>, 0, DrawsLater(seed, (90 + 7) * (n - 1) + 90),
                      STUDY_ID, site_id, 7).ret

\* C17 as stated: whatever the human-regime instance did in between, an
\* agent-regime instance that has finished an activation holds the enrollment
\* forecasts it fetches when it runs alone, and the human-regime instance holds
\* the batches it was constructed with.
C17_Independent ==
  /\ (a_state = "ready" /\ a_pc = "idle" /\ a_calls >= 1) =>
        /\ a_local.enroll90 = AloneEnroll90(a_seed, a_local.site_id, a_calls)
        /\ a_local.enroll7 = AloneEnroll7(a_seed, a_local.site_id, a_calls)
  /\ b_state = "ready" => b_batches = MockSystems(b_seed, clock).batches

(***************************************************************************)
(* Properties of the agent-regime script (SpecAfter).                      *)
(***************************************************************************)
\* the five messages of one activation, in the order the script passes them
FiveMessages ==
  <<"SiteActivatedEvent", "AllocateLotRequest", "AllocateLotResponse",
    "CreateShipmentRequest", "ShipmentPlan">>

\* the events on the bus that log one of the five messages
IsMessageEvent(e) == \E i \in 1..Len(FiveMessages) : e.action = FiveMessages[i]
MessageEvents == SelectSeq(a_bus, IsMessageEvent)

\* the five messages, n times over
Activations(n) == [i \in 1..(5 * n) |-> FiveMessages[((i - 1) % 5) + 1]]

\* C14: in one agent-regime activation each of the five messages is logged
\* exactly once as an agent-to-agent event, and the five events appear on the
\* bus in the order SiteActivatedEvent, AllocateLotRequest, AllocateLotResponse,
\* CreateShipmentRequest, ShipmentPlan.
C14_FiveMessagesInOrder ==
  LET events == MessageEvents
      n == Len(events)
      logged == [i \in 1..n |-> events[i].action]
      others == SelectSeq(a_bus, LAMBDA e : ~IsMessageEvent(e))
  IN /\ \A i \in 1..n :
          events[i].protocol = PROTOCOL_A2A /\ events[i].channel = CHANNEL_A2A
     /\ \A i \in 1..Len(others) :
          others[i].protocol # PROTOCOL_A2A /\ others[i].channel # CHANNEL_A2A
     /\ n <= 5 * a_calls
     /\ logged = SubSeq(Activations(a_calls), 1, n)
     /\ a_pc = "idle" => n = 5 * a_calls

\* one whole activation: five agent-to-agent events among the events of the bus
C14_Witness ==
  /\ a_state = "ready" /\ a_pc = "idle" /\ a_calls = 1
  /\ Len(MessageEvents) = 5 /\ Len(a_bus) > 5
  /\ MessageEvents[3].action = "AllocateLotResponse"

\* the activation under way, or the last one, has its allocation response
AllocationMade ==
  \/ a_pc \in {"recv_alloc", "send_ship", "plan", "recv_plan", "enroll7"}
  \/ a_pc = "idle" /\ a_calls >= 1

\* the activation under way, or the last one, has its shipment plan
PlanMade ==
  \/ a_pc \in {"recv_plan", "enroll7"}
  \/ a_pc = "idle" /\ a_calls >= 1

BeforeRunStep == b_calls' = b_calls + 1

\* the events the call logs
RunEvents == SubSeq(b_bus', Len(b_bus) + 1, Len(b_bus'))

\* C22: the clarification detour is inserted at most once per run, only when the
\* clarification delay is positive, right after the ticket reply of round 1: an
\* email request, the delay, an email reply; no email follows any later reply.
C22_ClarificationOnce ==
  [][BeforeRunStep =>
       LET E == RunEvents
           cfg == b_cfg'
           emails == {k \in 9..Len(E) : E[k].channel = CHANNEL_EMAIL}
       IN IF cfg.email_delay_hours > 0 /\ cfg.logistics_rounds >= 1
          THEN /\ emails = {11, 12}
               /\ E[10].channel = CHANNEL_TICKET
               /\ E[10].action = "Ticket update: Quote / ETA"
               /\ E[10].details = "Proposed plan after 1 round(s)"
               /\ E[11].action = "Email sent: Clarification on ticket"
               /\ E[11].t = E[10].t
               /\ E[12].action = "Email reply: Clarification received"
               /\ E[12].t = E[11].t + cfg.email_delay_hours
          ELSE emails = {}]_vars

\* three rounds with the detour: the emails at 11 and 12, tickets after them
C22_Witness ==
  /\ BeforeFresh /\ b_cfg.logistics_rounds = 3 /\ b_cfg.email_delay_hours > 0
  /\ Len(b_bus) = 16
  /\ b_bus[11].channel = CHANNEL_EMAIL /\ b_bus[12].channel = CHANNEL_EMAIL
  /\ b_bus[12].t = b_bus[11].t + b_cfg.email_delay_hours
  /\ \A k \in 13..16 : b_bus[k].channel = CHANNEL_TICKET

\* C23: with the shared ticket queue delay given the clock advances by it at the
\* WMS queue step and at the MES/QA queue step, whatever the per-team values;
\* without it the WMS step takes the WMS delay and the MES/QA step the MES/QA one.
C23_QueueDelays ==
  [][BeforeRunStep =>
       LET E == RunEvents
           cfg == b_cfg'
       IN IF cfg.ticket_queue_delay_hours # <<>>
          THEN /\ E[4].t = E[3].t + cfg.ticket_queue_delay_hours[1]
               /\ E[7].t = E[6].t + cfg.ticket_queue_delay_hours[1]
          ELSE /\ E[4].t = E[3].t + cfg.wms_email_delay_hours
               /\ E[7].t = E[6].t + cfg.mesqa_email_delay_hours]_vars

\* a run with the shared delay, unlike both per-team delays, has waited it twice
C23_Witness ==
  /\ BeforeFresh /\ b_cfg.ticket_queue_delay_hours = <<Hours(10)>>
  /\ b_cfg.wms_email_delay_hours = Hours(18) /\ b_cfg.mesqa_email_delay_hours = Hours(24)
  /\ b_bus[4].t = b_bus[3].t + Hours(10)
  /\ b_bus[7].t = b_bus[6].t + Hours(10)

\* the place in the run of the ticket opened in round i (from 1)
RoundOpen(i, cfg) == 9 + 2 * (i - 1) + (IF i >= 2 /\ cfg.email_delay_hours > 0 THEN 2 ELSE 0)

\* C24: the first eight events of a run have the channels email, manual, ticket,
\* system, ticket, ticket, system, ticket and the timestamps start, start +
\* cro_review twice, then + WMS queue, + lookup, the same instant, + MES/QA queue,
\* + lookup; each round then logs a ticket open (urgent shipment request in round
\* 1, follow-up / confirmation afterwards) and, roundtrip later, a ticket reply.
C24_OpeningAndRounds ==
  [][BeforeRunStep =>
       LET E == RunEvents
           cfg == b_cfg'
           start == b_now
           wms == QueueDelay(cfg.ticket_queue_delay_hours, cfg.wms_email_delay_hours)
           mes == QueueDelay(cfg.ticket_queue_delay_hours, cfg.mesqa_email_delay_hours)
           lookup == cfg.system_lookup_delay_hours
           t3 == start + cfg.cro_review_delay_hours
       IN /\ Len(E) >= 8
          /\ [k \in 1..8 |-> E[k].channel]
               = <<CHANNEL_EMAIL, CHANNEL_MANUAL, CHANNEL_TICKET, CHANNEL_SYSTEM,
                   CHANNEL_TICKET, CHANNEL_TICKET, CHANNEL_SYSTEM, CHANNEL_TICKET>>
          /\ [k \in 1..8 |-> E[k].t]
               = <<start, t3, t3, t3 + wms, t3 + wms + lookup, t3 + wms + lookup,
                   t3 + wms + lookup + mes, t3 + wms + lookup + mes + lookup>>
          /\ \A i \in 1..cfg.logistics_rounds :
               LET k == RoundOpen(i, cfg)
               IN /\ k + 1 <= Len(E)
                  /\ E[k].channel = CHANNEL_TICKET
                  /\ E[k].action = (IF i = 1 THEN "Ticket opened: Urgent shipment request"
                                    ELSE "Ticket update: Follow-up / confirmation")
                  /\ E[k + 1].channel = CHANNEL_TICKET
                  /\ E[k + 1].action = "Ticket update: Quote / ETA"
                  /\ E[k + 1].t = E[k].t + cfg.logistics_roundtrip_hours]_vars

\* the default run: the eighth event 211 hours after the start, the second
\* round opened as a follow-up after the detour
C24_Witness ==
  /\ BeforeFresh /\ b_cfg = DefaultCfg
  /\ b_bus[8].t = b_bus[1].t + Hours(168 + 18 + 24) + 2
  /\ b_bus[9].action = "Ticket opened: Urgent shipment request"
  /\ b_bus[13].action = "Ticket update: Follow-up / confirmation"
  /\ b_bus[14].t = b_bus[13].t + Hours(8)

(***************************************************************************)
(* The agent-regime script, event by event (SpecAfter), and the batches    *)
(* it leaves alone (Spec).                                                 *)
(***************************************************************************)
\* the actions of the events one activation logs, in the order of the script
ActivationScript ==
  <<"get_trial_sites", "get_enrollment_data", "SiteActivatedEvent", "get_erp_inventory",
    "AllocateLotRequest", "get_batch_stability">>
  \o [k \in 1..10 |-> "check_batch_expiry"]
  \o <<"AllocateLotResponse", "CreateShipmentRequest", "get_depot_inventory",
       "check_compliance_rules", "ShipmentPlan", "get_enrollment_data">>

\* C27: the events of one activation follow the order of the state machine: the
\* two interface-agent queries (site list, 90-day forecast), SiteActivatedEvent,
\* the ERP query, AllocateLotRequest, the batch-list query and the expiry
\* checks, AllocateLotResponse, CreateShipmentRequest, the depot-inventory and
\* compliance queries, ShipmentPlan.
C27_ScriptOrder ==
  [][/\ IsPrefix(a_bus, a_bus')
     /\ \A i \in (Len(a_bus) + 1)..Len(a_bus') :
          LET place == ((i - 1) % Len(ActivationScript)) + 1
          IN /\ a_bus'[i].action = ActivationScript[place]
             /\ place <= 2 => a_bus'[i].actor = "CRO Interface Agent"
             /\ place = 2 => a_bus'[i].details = a_local'.site_id \o " 90-day forecast generated"]_vars

\* a whole activation on the bus, the plan logged after the compliance query
C27_Witness ==
  /\ a_state = "ready" /\ a_pc = "idle" /\ a_calls = 1 /\ Len(a_bus) = Len(ActivationScript)
  /\ a_bus[3].action = "SiteActivatedEvent" /\ a_bus[17].action = "AllocateLotResponse"
  /\ a_bus[20].action = "check_compliance_rules" /\ a_bus[21].action = "ShipmentPlan"

\* the batches lowered by the step
Touched == {k \in 1..Len(a_batches) : a_batches'[k].available_units < a_batches[k].available_units}

\* C28: the CreateShipmentRequest of step 5 carries exactly the batch-id list of
\* the AllocateLotResponse of step 4, in the same order, so the per-batch part
\* of the shipment cost is 120 times the number of batches the allocation
\* touched (0 when nothing could be allocated).
C28_ShipmentBatches ==
  [][/\ (a_pc = "allocate" /\ a_pc' = "recv_alloc") =>
          Len(a_local'.alloc_resp.batch_ids) = Cardinality(Touched)
     /\ (a_pc = "send_ship" /\ a_pc' = "plan") =>
          /\ a_local'.ship_req.batch_ids = a_local.alloc_resp.batch_ids
          /\ a_local'.alloc_resp = a_local.alloc_resp
     /\ (a_pc = "plan" /\ a_pc' = "recv_plan") =>
          LET n == Len(a_local.alloc_resp.batch_ids)
              lead_days == Max(1, DateOf(a_local.ship_req.target_delivery_date) - DateOf(clock))
          IN /\ a_local'.plan.cost - 500 - (IF lead_days <= 2 THEN 400 ELSE 0) = 120 * n
             /\ n = 0 => a_local'.plan.cost \in {500, 500 + 400}]_vars

\* an activation that found every batch expired: no batch in the request, the
\* plan at the base cost and its surcharge only
C28_Witness ==
  /\ a_state = "ready" /\ a_pc = "idle" /\ a_calls >= 1
  /\ a_local.alloc_resp.batch_ids = <<>> /\ a_local.ship_req.batch_ids = <<>>
  /\ a_local.plan.cost \in {500, 500 + 400}

\* C29: only MESAgent.allocate_lots changes batch quantities: every other step
\* of the agent regime (the provider queries, plan_shipment, the receive and
\* send methods of the Clinical-Ops agent) and the whole human-regime script
\* leave the available quantity of every batch unchanged.
C29_OnlyAllocateChanges ==
  [][/\ (a_state = "ready" /\ a_pc # "allocate") =>
          /\ Len(a_batches') = Len(a_batches)
          /\ \A k \in 1..Len(a_batches) :
               a_batches'[k].available_units = a_batches[k].available_units
     /\ b_state = "ready" =>
          /\ Len(b_batches') = Len(b_batches)
          /\ \A k \in 1..Len(b_batches) :
               b_batches'[k].available_units = b_batches[k].available_units]_vars

\* both scripts have run: the allocation took its 50 units from the agents'
\* batches, the batches of the human regime are as constructed
C29_Witness ==
  /\ a_state = "ready" /\ a_pc = "idle" /\ a_calls = 1
  /\ b_state = "ready" /\ b_calls >= 1 /\ b_seed = a_seed
  /\ TotalUnits(a_batches) = TotalUnits(b_batches) - 50

\* C30: after an agent-regime activation order_to_delivery_days is the whole
\* days between the plan's ETA and the activation timestamp, shipment_cost the
\* plan's cost, compliance_events 0 and forecast_accuracy min(1, 50 /
\* forecast_total), which is 1 when forecast_total is 0: nothing is divided by
\* zero.
C30_AfterMetrics ==
  /\ (a_state = "ready" /\ a_pc = "idle" /\ a_calls >= 1) =>
        LET forecast_total == SumSeq(a_local.enroll7.forecast_daily)
        IN /\ a_metrics.order_to_delivery_days
                = (a_local.plan.eta - a_local.event.activation_date) \div Day
           /\ a_metrics.shipment_cost = a_local.plan.cost
           /\ a_metrics.compliance_events = 0
           /\ a_metrics.forecast_accuracy.den # 0
           /\ RatEq(a_metrics.forecast_accuracy,
                    IF forecast_total > 50 THEN Rat(50, forecast_total) ELSE Rat(1, 1))
  /\ \A forecast_total \in {0, 1, 50, 51, 100} :
        /\ ForecastAccuracy(50, forecast_total).den # 0
        /\ RatEq(ForecastAccuracy(50, forecast_total),
                 IF forecast_total = 0 THEN Rat(1, 1)
                 ELSE IF 50 < forecast_total THEN Rat(50, forecast_total) ELSE Rat(1, 1))

\* an activation has ended with its metrics: the plan's cost, one or two whole
\* days to delivery, a 7-day forecast under 50 and the accuracy 1
C30_Witness ==
  /\ a_state = "ready" /\ a_pc = "idle" /\ a_calls >= 1
  /\ a_metrics.shipment_cost = a_local.plan.cost /\ a_local.plan.cost >= 500
  /\ a_metrics.order_to_delivery_days \in {1, 2}
  /\ SumSeq(a_local.enroll7.forecast_daily) \in 1..49
  /\ RatEq(a_metrics.forecast_accuracy, Rat(1, 1))

(***************************************************************************)
(* The enrollment forecast (SpecProvider).                                 *)
(***************************************************************************)
\* a direct call of get_enrollment_data is being made
EnrollmentStep == a_calls' = a_calls + 1 /\ a_ret'.op = "get_enrollment_data"

\* C31: get_enrollment_data with horizon n returns a forecast of exactly n
\* non-negative integers and a cumulative sequence of length n whose k-th entry
\* is the sum of the first k forecast entries, hence non-decreasing; the call
\* logs one event whatever n is, n = 0 included.
C31_EnrollmentShape ==
  [][EnrollmentStep =>
       LET n == a_ret'.args[2]
           forecast == a_ret'.val.forecast_daily
           cumulative == a_ret'.val.cumulative
       IN /\ Len(forecast) = n /\ Len(cumulative) = n
          /\ \A k \in 1..n : forecast[k] \in Nat
          /\ \A k \in 1..n : cumulative[k] = SumRange(forecast, 1, k)
          /\ \A k \in 1..(n - 1) : cumulative[k] <= cumulative[k + 1]
          /\ Len(a_bus') = Len(a_bus) + 1
          /\ Last(a_bus').action = "get_enrollment_data"]_vars

\* a 90-day forecast fetched after an empty one that was logged all the same
C31_Witness ==
  /\ a_ret.op = "get_enrollment_data" /\ a_ret.args[2] = 90 /\ Len(a_bus) = 2
  /\ a_bus[1].details = a_ret.args[1] \o " 0-day forecast generated"
  /\ Len(a_ret.val.forecast_daily) = 90 /\ Len(a_ret.val.cumulative) = 90
  /\ a_ret.val.cumulative[90] > a_ret.val.cumulative[89]
  /\ a_ret.val.cumulative[90] > a_ret.val.forecast_daily[90]

(***************************************************************************)
(* The tags of the events of both regimes (Spec).                          *)
(***************************************************************************)
HumanChannels == {CHANNEL_EMAIL, CHANNEL_MANUAL, CHANNEL_TICKET, CHANNEL_SYSTEM}

\* C32: every event logged by the human regime has no protocol tag and a
\* channel among email, manual, ticket, system; every event logged by the agent
\* regime has a protocol tag matching its channel (MCP with 'mcp', A2A with
\* 'a2a') and a non-empty target.
C32_EventTags ==
  /\ \A i \in 1..Len(b_bus) :
        b_bus[i].protocol = None /\ b_bus[i].channel \in HumanChannels
  /\ \A i \in 1..Len(a_bus) :
        /\ \/ a_bus[i].protocol = "MCP" /\ a_bus[i].channel = "mcp"
           \/ a_bus[i].protocol = "A2A" /\ a_bus[i].channel = "a2a"
        /\ a_bus[i].target \notin {None, ""}

\* both scripts have run: the four human channels and the two protocols are on
\* the buses
C32_Witness ==
  /\ b_calls >= 1 /\ {b_bus[i].channel : i \in 1..Len(b_bus)} = HumanChannels
  /\ a_pc = "idle" /\ a_calls >= 1
  /\ {a_bus[i].protocol : i \in 1..Len(a_bus)} = {"MCP", "A2A"}

(***************************************************************************)
(* The stock over successive activations (SpecAfter).                      *)
(***************************************************************************)
\* the batches the Simulation was constructed with: the quantities depend on
\* the seed only
InitialBatches == MockSystems(a_seed, 0).batches

\* the units a response stands for: the 50 requested less the shortfall noted
AllocatedBy(constraints) ==
  IF constraints = <<>> THEN 50
  ELSE 50 - (CHOOSE n \in 1..50 : constraints = ShortfallNote(n))

\* the responses received so far, and the one on its way to the agent
ResponsesSoFar ==
  [i \in 1..(Len(a_clinops.pending_orders) \div 2) |->
     a_clinops.pending_orders[2 * i].constraints]
  \o (IF a_pc = "recv_alloc" THEN <<a_local.alloc_resp.constraints>> ELSE <<>>)

PlannedWithinADay ==
  /\ PlanMade
  /\ a_local.plan.timestamp - a_local.ship_req.timestamp < Day
  /\ a_local.plan.timestamp - a_local.event.activation_date < Day

\* C34 as stated: in an agent-regime activation the shipment is never
\* expedited: lead_days is 3, the plan costs 500 + 120 * len(batch_ids) without
\* the 400 surcharge, the ETA is two days after the plan is made and
\* order_to_delivery_days is 2, even when midnight passes between the clock
\* read that sets the target delivery and the one plan_shipment makes.
C34_NeverExpedited ==
  PlannedWithinADay =>
    /\ DateOf(a_local.ship_req.target_delivery_date) - DateOf(a_local.plan.timestamp) = 3
    /\ a_local.plan.cost = 500 + 120 * Len(a_local.ship_req.batch_ids)
    /\ a_local.plan.eta = a_local.plan.timestamp + 2 * Day
    /\ a_pc \in {"enroll7", "idle"} => a_metrics.order_to_delivery_days = 2

(***************************************************************************)
(* The first activation of a new Simulation (SpecAfter).                   *)
(***************************************************************************)
\* the date the Simulation was constructed: BATCH-001 was made 60 days before
ConstructionDay == DateOf(a_batches[1].manufacture_date) + 60

\* the first activation has its response, made on the day of the construction
\* or the day after
FirstActivationFresh ==
  /\ a_state = "ready" /\ AllocationMade
  /\ a_calls = 1
  /\ DateOf(a_local.alloc_resp.timestamp) <= ConstructionDay + 1

\* the details of the expiry check of the k-th batch in the first activation
ExpiryDetail(k, valid) ==
  a_batches[k].batch_id \o " valid_on "
    \o ToString(DateOf(a_local.alloc_resp.release_date)) \o " -> " \o BoolStr(valid)

\* C35: the first activation of a freshly constructed Simulation fills the
\* whole 50-unit request from BATCH-001 whatever the seed: every generated
\* batch holds at least 50 units, the batch-id list is exactly BATCH-001, the
\* constraint list is empty and each of the ten batches passes its expiry
\* check at the release date.
C35_FirstFromBatch001 ==
  /\ \A s \in 0..(RngMod - 1) : \A i \in 0..9 : NewBatch(i, s, 0).available_units >= 50
  /\ FirstActivationFresh =>
        /\ a_local.alloc_resp.batch_ids = <<"BATCH-001">>
        /\ a_local.alloc_resp.constraints = <<>>
        /\ \A k \in 1..10 :
              /\ \E n \in 1..Len(a_bus) : a_bus[n].details = ExpiryDetail(k, TRUE)
              /\ \A n \in 1..Len(a_bus) : a_bus[n].details # ExpiryDetail(k, FALSE)

\* the first activation finished, a day after a construction with seed 7
C35_Witness ==
  /\ FirstActivationFresh /\ a_pc = "idle" /\ a_seed = 7
  /\ DateOf(a_local.alloc_resp.timestamp) = ConstructionDay + 1
  /\ a_batches[1].available_units = InitialBatches[1].available_units - 50

(***************************************************************************)
(* The events of one activation, counted (SpecAfter).                      *)
(***************************************************************************)
\* the number of events on the bus of the Simulation with that protocol tag
TaggedEvents(protocol) == Cardinality({n \in 1..Len(a_bus) : a_bus[n].protocol = protocol})

\* C36: one activation appends exactly 22 events, 17 system-to-system (site
\* list, 90-day forecast, ERP, batch list, ten expiry checks, depot inventory,
\* compliance rules, 7-day forecast) and 5 agent-to-agent, whatever the seed
\* and the stock: after k activations the bus holds 22k, 17k and 5k of them.
C36_EventCount ==
  /\ (a_state = "ready" /\ a_pc # "idle") =>
        /\ Len(a_bus) > 22 * (a_calls - 1)
        /\ Len(a_bus) < 22 * a_calls
  /\ (a_state = "ready" /\ a_pc = "idle") =>
        /\ Len(a_bus) = 22 * a_calls
        /\ TaggedEvents(PROTOCOL_MCP) = 17 * a_calls
        /\ TaggedEvents(PROTOCOL_A2A) = 5 * a_calls
        /\ \A k \in 0..(a_calls - 1) :
              Cardinality({n \in (22 * k + 1)..(22 * k + 22) :
                             a_bus[n].action = "check_batch_expiry"}) = 10

\* two activations, the second one with no valid batch left
C36_Witness ==
  /\ a_state = "ready" /\ a_pc = "idle" /\ a_calls = 2 /\ Len(a_bus) = 44
  /\ a_local.alloc_resp.batch_ids = <<>>
  /\ TaggedEvents(PROTOCOL_A2A) = 10

(***************************************************************************)
(* The metrics of a repeated human-regime run (SpecBefore).                *)
(***************************************************************************)
\* the latency, in half hours, a new BeforeSimulation has after one call of
\* activate_new_site with the configuration
FreshLatency(cfg) ==
  BeforeScript([now |-> 0, bus |-> <<>>, latency |-> 0], b_batches, "US-BOS-001", cfg).latency

\* C37 as stated: the human-regime metrics describe only the run that just
\* finished: after any call of activate_new_site, also a second one on the
\* same BeforeSimulation, latency_hours and order_to_delivery_days are the
\* values a fresh instance gives for that call's configuration alone.
C37_MetricsOfLastRun ==
  (b_state = "ready" /\ b_calls >= 1) =>
    /\ RatEq(b_metrics.latency_hours, Rat(FreshLatency(b_cfg), 2))
    /\ RatEq(b_metrics.order_to_delivery_days, Rat(FreshLatency(b_cfg) + Day, Day))

(***************************************************************************)
(* The forecast accuracy of the agent regime (SpecAfter).                  *)
(***************************************************************************)
\* C38: forecast_accuracy is 1.0 after every activation: each daily value of
\* the 7-day forecast is 1, 2 or 3 whatever the generator draws, so its total
\* lies between 7 and 21 and never exceeds the 50 units supplied.
C38_AccuracyAlwaysOne ==
  /\ \A s \in 0..(RngMod - 1) : \A i \in 0..6 : ForecastDay(i, s) \in {1, 2, 3}
  /\ (a_state = "ready" /\ a_pc = "idle" /\ a_calls >= 1) =>
        LET daily == a_local.enroll7.forecast_daily
        IN /\ Len(daily) = 7
           /\ \A k \in 1..7 : daily[k] \in {1, 2, 3}
           /\ SumRange(daily, 1, 7) \in 7..21
           /\ RatEq(a_metrics.forecast_accuracy, Rat(1, 1))
           /\ a_metrics.forecast_accuracy.num = a_metrics.forecast_accuracy.den

\* a second activation has ended, its forecast of one or two a day
C38_Witness ==
  /\ a_state = "ready" /\ a_pc = "idle" /\ a_calls = 2
  /\ \E k \in 1..7 : a_local.enroll7.forecast_daily[k] = 2
  /\ \E k \in 1..7 : a_local.enroll7.forecast_daily[k] = 1
  /\ a_metrics.forecast_accuracy = Rat(1, 1)

(***************************************************************************)
(* The lists the agents keep (SpecAfter).                                  *)
(***************************************************************************)
\* C39: each activation appends exactly two entries to the pending_orders of
\* the Clinical-Ops agent, a SiteActivated record and then an Allocation record
\* with the batch ids and constraints of the response, one entry to its
\* active_shipments and one to the active_shipments of the Logistics agent;
\* nothing is ever removed, so after k activations the lengths are 2k, k, k.
C39_AgentLists ==
  /\ []((a_state = "ready" /\ a_pc = "idle") =>
          /\ Len(a_clinops.pending_orders) = 2 * a_calls
          /\ Len(a_clinops.active_shipments) = a_calls
          /\ Len(a_logistics.active_shipments) = a_calls
          /\ Len(a_logistics.pending_orders) = 0
          /\ \A k \in 1..a_calls :
                /\ a_clinops.pending_orders[2 * k - 1].type = "SiteActivated"
                /\ a_clinops.pending_orders[2 * k].type = "Allocation")
  /\ [][/\ IsPrefix(a_clinops.pending_orders, a_clinops'.pending_orders)
        /\ IsPrefix(a_clinops.active_shipments, a_clinops'.active_shipments)
        /\ IsPrefix(a_logistics.active_shipments, a_logistics'.active_shipments)
        /\ (a_pc = "recv_alloc" /\ a_pc' # a_pc) =>
             /\ Len(a_clinops'.pending_orders) = Len(a_clinops.pending_orders) + 1
             /\ Last(a_clinops'.pending_orders).batch_ids = a_local.alloc_resp.batch_ids
             /\ Last(a_clinops'.pending_orders).constraints = a_local.alloc_resp.constraints]_vars

\* two activations have ended: four orders, two shipments with each agent, the
\* shipment of the first activation still in both lists
C39_Witness ==
  /\ a_state = "ready" /\ a_pc = "idle" /\ a_calls = 2
  /\ Len(a_clinops.pending_orders) = 4
  /\ Len(a_clinops.active_shipments) = 2 /\ Len(a_logistics.active_shipments) = 2
  /\ a_clinops.pending_orders[2].batch_ids = <<"BATCH-001">>
  /\ a_logistics.active_shipments[1].batches = <<"BATCH-001">>
  /\ a_clinops.active_shipments[1].cost = a_logistics.active_shipments[1].cost

(***************************************************************************)
(* A request for nothing (SpecAlloc).                                      *)
(***************************************************************************)
\* C40: allocate_lots with a quantity of zero or less selects no batch,
\* changes no batch quantity and returns an empty constraint list.
C40_NothingRequested ==
  [][(AllocStep /\ a_ret'.args[1].quantity <= 0) =>
       /\ a_ret'.val.batch_ids = <<>>
       /\ a_ret'.val.constraints = <<>>
       /\ a_batches' = a_batches
       /\ a_ret'.val.request_id = a_ret'.args[1].message_id]_vars

\* a request for minus five units answered while valid stock was there
C40_Witness ==
  /\ a_state = "ready" /\ a_calls >= 1 /\ a_ret.op = "allocate_lots"
  /\ a_ret.args[1].quantity < 0
  /\ a_ret.val.batch_ids = <<>> /\ a_ret.val.constraints = <<>>
  /\ ValidStock(a_batches) > 0 /\ a_batches = InitialBatches

====
